---- MODULE Spec2Model ----
(***************************************************************************)
(* FocusGroup: the room state machine (core/room.py), the command router   *)
(* (core/persona_router.py), the turn engine (core/nodes.py), the history  *)
(* store (db/redis_client.py) and the REPL of main.py (run, run_observe,   *)
(* _load_image).  Python str values are TLA+ strings; a character of a     *)
(* string s is SubSeq(s, i, i).                                            *)
(***************************************************************************)
EXTENDS Integers, Sequences, FiniteSets, TLC

(***************************************************************************)
(* Text primitives of Python str / re used by the sources.                 *)
(***************************************************************************)
Char(s, i) == SubSeq(s, i, i)

UpperChars == <<"A","B","C","D","E","F","G","H","I","J","K","L","M",
                "N","O","P","Q","R","S","T","U","V","W","X","Y","Z">>

LowerChars == <<"a","b","c","d","e","f","g","h","i","j","k","l","m",
                "n","o","p","q","r","s","t","u","v","w","x","y","z">>

Digits == <<"0","1","2","3","4","5","6","7","8","9">>

IsSpace(c) == c \in {" ", "\t", "\n", "\r"}

IsDigit(c) == \E i \in 1..Len(Digits) : Digits[i] = c

\* \w of the re module: a letter, a digit or the underscore
IsWord(c) ==
    \/ \E i \in 1..Len(LowerChars) : LowerChars[i] = c \/ UpperChars[i] = c
    \/ IsDigit(c)
    \/ c = "_"

LowerChar(c) ==
    IF \E i \in 1..Len(UpperChars) : UpperChars[i] = c
    THEN LowerChars[CHOOSE i \in 1..Len(UpperChars) : UpperChars[i] = c]
    ELSE c

\* s[i..j] in lower case, by halves
RECURSIVE LowerRange(_, _, _)
LowerRange(s, i, j) ==
    IF i > j THEN ""
    ELSE IF i = j THEN LowerChar(Char(s, i))
    ELSE LowerRange(s, i, (i + j) \div 2) \o LowerRange(s, (i + j) \div 2 + 1, j)

\* str.lower()
Lower(s) == LowerRange(s, 1, Len(s))

RECURSIVE LStripIdx(_, _)
LStripIdx(s, i) ==
    IF i <= Len(s) /\ IsSpace(Char(s, i)) THEN LStripIdx(s, i + 1) ELSE i

RECURSIVE RStripIdx(_, _)
RStripIdx(s, j) ==
    IF j >= 1 /\ IsSpace(Char(s, j)) THEN RStripIdx(s, j - 1) ELSE j

\* str.strip()
Strip(s) == SubSeq(s, LStripIdx(s, 1), RStripIdx(s, Len(s)))

\* s[i:] with the 1-based index of the first kept character
From(s, i) == SubSeq(s, i, Len(s))

StartsWith(s, p) == Len(s) >= Len(p) /\ SubSeq(s, 1, Len(p)) = p

\* the least index >= i at which p occurs in s, or 0 (str.find, 1-based)
Find(s, p, i) ==
    LET hits == {k \in i..(Len(s) - Len(p) + 1) : SubSeq(s, k, k + Len(p) - 1) = p}
    IN  IF hits = {} THEN 0 ELSE CHOOSE k \in hits : \A q \in hits : k <= q

AllWord(s) == \A i \in 1..Len(s) : IsWord(Char(s, i))

DigitValue(c) == (CHOOSE i \in 1..Len(Digits) : Digits[i] = c) - 1

RECURSIVE ToIntAcc(_, _, _)
ToIntAcc(s, i, acc) ==
    IF i > Len(s) THEN acc ELSE ToIntAcc(s, i + 1, acc * 10 + DigitValue(Char(s, i)))

\* int() of a string of digits
ToInt(s) == ToIntAcc(s, 1, 0)

Max(a, b) == IF a >= b THEN a ELSE b


(***************************************************************************)
(* Registry and alias table (config.py, core/persona_store.py).            *)
(***************************************************************************)
\* the two built-in personas and one custom persona of the custom registry
FULL_REGISTRY ==
    [k \in {"1", "2", "3"} |->
        CASE k = "1" -> [name |-> "Lena",   redis_key |-> "session:lena:messages"]
          [] k = "2" -> [name |-> "Marcus", redis_key |-> "session:marcus:messages"]
          [] k = "3" -> [name |-> "Ravi",   redis_key |-> "session:custom_ravi_1:messages"]]

Keys == DOMAIN FULL_REGISTRY

FULL_MENTION_MAP ==
    [a \in {"@lena", "@marcus", "@ravi"} |->
        CASE a = "@lena" -> "1" [] a = "@marcus" -> "2" [] a = "@ravi" -> "3"]

\* dict.get(a): the value, or "" for Python's None (both are falsy)
MapGet(map_, a) == IF a \in DOMAIN map_ THEN map_[a] ELSE ""

\* dict.get(k, default) of a command result
Get(d, k, default) == IF k \in DOMAIN d THEN d[k] ELSE default

(***************************************************************************)
(* The command router: detect_command (core/persona_router.py).            *)
(***************************************************************************)
\* detect_command's "return None"
None == [cmd |-> "none"]

\* detect_command left by an exception instead of a return
Raise(error) == [cmd |-> "raise", error |-> error]

\* int(s) of a string of digits raises ValueError when s has more digits than
\* the interpreter converts (sys.int_max_str_digits, 4300 unless set otherwise)
IntRaises(s) == Len(s) > 4300

\* variant: ^!verb\s* , the white space after the verb may be missing
AfterVerb_NoSpace(stripped, verb) ==
    LET n == Len(verb)
        e == LStripIdx(stripped, n + 1)
    IN  IF Len(stripped) > n /\ Lower(SubSeq(stripped, 1, n)) = verb
        THEN e ELSE 0

\* ^!verb\s+ : the index of the first character after the white space, or 0
AfterVerb(stripped, verb) ==
    LET n == Len(verb)
        e == LStripIdx(stripped, n + 1)
    IN  IF Len(stripped) > n /\ Lower(SubSeq(stripped, 1, n)) = verb /\ e > n + 1
        THEN e ELSE 0

\* re.match(r'^!verb\s+@(\w+)$', stripped, re.IGNORECASE): group(1), or ""
MatchAtName(stripped, verb) ==
    LET e == AfterVerb(stripped, verb)
    IN  IF e # 0 /\ Char(stripped, e) = "@" /\ e < Len(stripped)
             /\ AllWord(From(stripped, e + 1))
        THEN From(stripped, e + 1) ELSE ""

\* re.match(r'^!verb\s+(\w+)$', stripped, re.IGNORECASE): group(1), or ""
MatchBareName(stripped, verb) ==
    LET e == AfterVerb(stripped, verb)
    IN  IF e # 0 /\ e <= Len(stripped) /\ AllWord(From(stripped, e))
        THEN From(stripped, e) ELSE ""

\* re.match(r'^!verb\s+(.+)$', stripped, re.IGNORECASE): group(1), or ""
MatchRest(stripped, verb) ==
    LET e == AfterVerb(stripped, verb)
    IN  IF e # 0 /\ e <= Len(stripped) /\ Find(stripped, "\n", e) = 0
        THEN From(stripped, e) ELSE ""

\* re.search(r'"([^"]+)"', rest): <<start, end>> of the match, or <<0, 0>>
RECURSIVE QuoteSearch(_, _)
QuoteSearch(rest, i) ==
    LET q1 == Find(rest, "\"", i)
        q2 == IF q1 = 0 THEN 0 ELSE Find(rest, "\"", q1 + 1)
    IN  IF q1 = 0 \/ q2 = 0 THEN <<0, 0>>
        ELSE IF q2 = q1 + 1 THEN QuoteSearch(rest, q2)
        ELSE <<q1, q2>>

\* the index of the last digit of the run of digits that s[j] is in
DigitRunEnd(s, j) ==
    LET stops == {k \in j..Len(s) : k = Len(s) \/ ~IsDigit(Char(s, k + 1))}
    IN  CHOOSE k \in stops : \A q \in stops : k <= q

\* re.search(r'\b(\d+)\b', rest): group(1), or ""
RECURSIVE NumSearch(_, _)
NumSearch(rest, i) ==
    IF i > Len(rest) THEN ""
    ELSE IF IsDigit(Char(rest, i)) /\ (i = 1 \/ ~IsWord(Char(rest, i - 1)))
         THEN LET j == DigitRunEnd(rest, i)
              IN  IF j = Len(rest) \/ ~IsWord(Char(rest, j + 1))
                  THEN SubSeq(rest, i, j)
                  ELSE NumSearch(rest, j + 1)
         ELSE NumSearch(rest, i + 1)

\* variant: the number is searched before the quoted topic is cut out
ObserveCommand_NumberFirst(stripped) ==
    LET rest0 == Strip(From(stripped, Len("!observe") + 1))
        qm    == QuoteSearch(rest0, 1)
        obs_topic == IF qm[1] # 0 THEN Strip(SubSeq(rest0, qm[1] + 1, qm[2] - 1)) ELSE ""
        num   == NumSearch(rest0, 1)
        obs_rounds == IF num # "" THEN Max(1, ToInt(num)) ELSE 0
    IN  IF num # "" /\ IntRaises(num) THEN Raise("ValueError")
        ELSE IF obs_topic # "" /\ obs_rounds # 0
        THEN [cmd |-> "observe", observe_topic |-> obs_topic, observe_rounds |-> obs_rounds]
        ELSE IF obs_topic # "" THEN [cmd |-> "observe", observe_topic |-> obs_topic]
        ELSE IF obs_rounds # 0 THEN [cmd |-> "observe", observe_rounds |-> obs_rounds]
        ELSE [cmd |-> "observe"]

\* the !observe branch of detect_command
ObserveCommand(stripped) ==
    LET rest0 == Strip(From(stripped, Len("!observe") + 1))
        qm    == QuoteSearch(rest0, 1)
        obs_topic == IF qm[1] # 0 THEN Strip(SubSeq(rest0, qm[1] + 1, qm[2] - 1)) ELSE ""
        rest  == IF qm[1] # 0
                 THEN Strip(SubSeq(rest0, 1, qm[1] - 1) \o From(rest0, qm[2] + 1))
                 ELSE rest0
        num   == NumSearch(rest, 1)
        obs_rounds == IF num # "" THEN Max(1, ToInt(num)) ELSE 0
    IN  IF num # "" /\ IntRaises(num) THEN Raise("ValueError")
        ELSE IF obs_topic # "" /\ obs_rounds # 0
        THEN [cmd |-> "observe", observe_topic |-> obs_topic, observe_rounds |-> obs_rounds]
        ELSE IF obs_topic # "" THEN [cmd |-> "observe", observe_topic |-> obs_topic]
        ELSE IF obs_rounds # 0 THEN [cmd |-> "observe", observe_rounds |-> obs_rounds]
        ELSE [cmd |-> "observe"]

\* the !add / !kick / !focus @name branches: verb or verb_unknown
\* variant: an alias missing from the table falls back to the first persona
NamedCommand_FirstPersona(verb, raw_name, map_) ==
    LET name == Lower(raw_name)
        key  == MapGet(map_, "@" \o name)
    IN  [cmd |-> verb, persona_key |-> IF key # "" THEN key ELSE "1", persona_name |-> name]

\* variant: the alias is looked up as it was typed
NamedCommand_AsTyped(verb, raw_name, map_) ==
    LET key == MapGet(map_, "@" \o raw_name)
    IN  IF key # ""
        THEN [cmd |-> verb, persona_key |-> key, persona_name |-> raw_name]
        ELSE [cmd |-> verb \o "_unknown", persona_name |-> raw_name]

NamedCommand(verb, raw_name, map_) ==
    LET name == Lower(raw_name)
        key  == MapGet(map_, "@" \o name)
    IN  IF key # ""
        THEN [cmd |-> verb, persona_key |-> key, persona_name |-> name]
        ELSE [cmd |-> verb \o "_unknown", persona_name |-> name]

\* variant: the suggestion repeats the name without the "@"
DidYouMean_NoAt(verb, raw_name) ==
    [cmd |-> "did_you_mean", suggestion |-> "!" \o verb \o " " \o Lower(raw_name)]

\* !add / !kick / !focus name without "@":
\* {"cmd": "did_you_mean", "suggestion": f"!verb @{name}"}
DidYouMean(verb, raw_name) ==
    [cmd |-> "did_you_mean", suggestion |-> "!" \o verb \o " @" \o Lower(raw_name)]

\* the !image <path> branch
ImageCommand(group1) ==
    LET s0 == Strip(group1)
        quoted == Len(s0) >= 2 /\ Char(s0, 1) = Char(s0, Len(s0))
                                /\ Char(s0, 1) \in {"'", "\""}
        source == IF quoted THEN SubSeq(s0, 2, Len(s0) - 1) ELSE s0
    IN  IF Lower(source) = "clear"
        THEN [cmd |-> "image_clear"]
        ELSE [cmd |-> "image_load", source |-> source]

detect_command(user_input, map_) ==
    LET stripped == Strip(user_input)
        lower    == Lower(stripped)
    IN  IF StartsWith(lower, "!exit") THEN [cmd |-> "exit"]
        ELSE IF StartsWith(lower, "!quit") THEN [cmd |-> "exit"]
        ELSE IF lower \in {"exit", "quit"}
            THEN [cmd |-> "did_you_mean", suggestion |-> "!exit"]
        ELSE IF lower \in {"!reset", "!clear"} THEN [cmd |-> "reset"]
        ELSE IF lower \in {"!help", "!commands", "!?"} THEN [cmd |-> "help"]
        ELSE IF StartsWith(lower, "!observe") THEN ObserveCommand(stripped)
        ELSE IF lower = "!focus" THEN [cmd |-> "unfocus"]
        ELSE IF lower = "!topic" THEN [cmd |-> "topic_clear"]
        ELSE IF MatchRest(stripped, "!topic") # ""
            THEN [cmd |-> "topic_set", topic |-> Strip(MatchRest(stripped, "!topic"))]
        ELSE IF MatchAtName(stripped, "!add") # ""
            THEN NamedCommand("add", MatchAtName(stripped, "!add"), map_)
        ELSE IF MatchBareName(stripped, "!add") # ""
            THEN DidYouMean("add", MatchBareName(stripped, "!add"))
        ELSE IF lower = "!add" THEN [cmd |-> "usage_hint", hint |-> "Usage: !add @name"]
        ELSE IF MatchAtName(stripped, "!kick") # ""
            THEN NamedCommand("kick", MatchAtName(stripped, "!kick"), map_)
        ELSE IF MatchBareName(stripped, "!kick") # ""
            THEN DidYouMean("kick", MatchBareName(stripped, "!kick"))
        ELSE IF lower = "!kick" THEN [cmd |-> "usage_hint", hint |-> "Usage: !kick @name"]
        ELSE IF MatchAtName(stripped, "!focus") # ""
            THEN NamedCommand("focus", MatchAtName(stripped, "!focus"), map_)
        ELSE IF MatchBareName(stripped, "!focus") # ""
            THEN DidYouMean("focus", MatchBareName(stripped, "!focus"))
        ELSE IF MatchRest(stripped, "!image") # ""
            THEN ImageCommand(MatchRest(stripped, "!image"))
        ELSE IF lower = "!image"
            THEN [cmd |-> "usage_hint", hint |-> "Usage: !image <filepath>  or  !image clear"]
        ELSE IF lower = "!images" THEN [cmd |-> "image_list"]
        ELSE None

(***************************************************************************)
(* The room state machine (core/room.py).  A RoomState is a record with    *)
(* the fields of the TypedDict; "personas" is a function whose domain is   *)
(* the set of loaded persona keys.                                         *)
(***************************************************************************)
InList(x, list) == \E i \in 1..Len(list) : list[i] = x

\* datetime.now() is left out of the entry: no code reads the timestamp back
make_log_entry(entry_type, content, persona_key, persona_name, thoughts) ==
    [type |-> entry_type, persona_key |-> persona_key, persona_name |-> persona_name,
     thoughts |-> thoughts, content |-> content]

\* variant: no membership test before the append
add_persona_to_room_Always(state, persona_key) ==
    [state EXCEPT !.active_personas = state.active_personas \o <<persona_key>>]

add_persona_to_room(state, persona_key) ==
    IF ~InList(persona_key, state.active_personas)
    THEN [state EXCEPT !.active_personas = state.active_personas \o <<persona_key>>]
    ELSE state

\* variant: the focus is left alone
kick_persona_from_room_KeepFocus(state, persona_key) ==
    [state EXCEPT !.active_personas =
                      SelectSeq(state.active_personas, LAMBDA k : k # persona_key)]

\* variant: the focus is always cleared
kick_persona_from_room_ClearFocus(state, persona_key) ==
    [state EXCEPT !.active_personas =
                      SelectSeq(state.active_personas, LAMBDA k : k # persona_key),
                  !.focus_persona = ""]

kick_persona_from_room(state, persona_key) ==
    LET new_active == SelectSeq(state.active_personas, LAMBDA k : k # persona_key)
        new_focus  == IF state.focus_persona = persona_key THEN "" ELSE state.focus_persona
    IN  [state EXCEPT !.active_personas = new_active, !.focus_persona = new_focus]

set_focus(state, persona_key) == [state EXCEPT !.focus_persona = persona_key]

clear_focus(state) == [state EXCEPT !.focus_persona = ""]

\* variant: the entry goes to the front of the log
append_log_Front(state, entry) ==
    [state EXCEPT !.full_log = <<entry>> \o state.full_log]

append_log(state, entry) ==
    LET new_log == state.full_log \o <<entry>>
    IN  [state EXCEPT !.full_log = new_log]

(***************************************************************************)
(* The history store (db/redis_client.py): a function from the keys that   *)
(* are set to the stored message lists.                                    *)
(***************************************************************************)
load_history(store, redis_key) ==
    IF redis_key \in DOMAIN store THEN store[redis_key] ELSE <<>>

\* variant: only the exchange just appended is kept under the key
save_history_LastExchange(store, redis_key, messages) ==
    [k \in DOMAIN store \cup {redis_key} |->
        IF k = redis_key THEN SubSeq(messages, Max(1, Len(messages) - 1), Len(messages))
        ELSE store[k]]

save_history(store, redis_key, messages) ==
    [k \in DOMAIN store \cup {redis_key} |-> IF k = redis_key THEN messages ELSE store[k]]

\* variant: the exchange is appended and saved a second time
append_exchange_Twice(store, redis_key, user_msg, assistant_msg) ==
    save_history(store, redis_key,
                 load_history(store, redis_key)
                   \o <<[role |-> "user", content |-> user_msg],
                        [role |-> "assistant", content |-> assistant_msg]>>
                   \o <<[role |-> "user", content |-> user_msg],
                        [role |-> "assistant", content |-> assistant_msg]>>)

append_exchange(store, redis_key, user_msg, assistant_msg) ==
    LET history == load_history(store, redis_key)
                     \o <<[role |-> "user", content |-> user_msg]>>
                     \o <<[role |-> "assistant", content |-> assistant_msg]>>
    IN  save_history(store, redis_key, history)

\* variant: an empty list is saved under the key
reset_session_SavesEmpty(store, redis_key) ==
    [k \in DOMAIN store \cup {redis_key} |-> IF k = redis_key THEN <<>> ELSE store[k]]

reset_session(store, redis_key) ==
    [k \in DOMAIN store \ {redis_key} |-> store[k]]

(***************************************************************************)
(* The turn engine (core/nodes.py).                                        *)
(***************************************************************************)
\* re.search(r'<think>(.*?)</think>', raw_response, re.DOTALL): <<start, end>>
\* of group(1)'s delimiters (index of "<think>", index of "</think>"), or <<0, 0>>
ThinkSearch(raw_response) ==
    LET o == Find(raw_response, "<think>", 1)
        c == IF o = 0 THEN 0 ELSE Find(raw_response, "</think>", o + Len("<think>"))
    IN  IF o = 0 \/ c = 0 THEN <<0, 0>> ELSE <<o, c>>

\* variant: the block is taken out but neither part is stripped
extract_thinking_NoStrip(raw_response) ==
    LET m == ThinkSearch(raw_response)
    IN  IF m[1] # 0
        THEN <<SubSeq(raw_response, m[1] + Len("<think>"), m[2] - 1),
               SubSeq(raw_response, 1, m[1] - 1)
                 \o From(raw_response, m[2] + Len("</think>"))>>
        ELSE <<"", raw_response>>

\* returns <<thoughts, clean_response>>
extract_thinking(raw_response) ==
    LET m == ThinkSearch(raw_response)
    IN  IF m[1] # 0
        THEN <<Strip(SubSeq(raw_response, m[1] + Len("<think>"), m[2] - 1)),
               Strip(SubSeq(raw_response, 1, m[1] - 1)
                       \o From(raw_response, m[2] + Len("</think>")))>>
        ELSE <<"", Strip(raw_response)>>

\* the locals of the streaming branch before the first chunk; calls is the
\* list of the arguments on_token has been called with
StreamStart == [raw_text |-> "", thinking_closed |-> FALSE, calls |-> <<>>]

\* variant: the chunk that closes the thinking block is forwarded as it came
stream_chunk_WholeToken(st, token) ==
    LET raw_text == st.raw_text \o token
    IN  IF ~st.thinking_closed
        THEN IF Find(raw_text, "</think>", 1) # 0
             THEN [raw_text |-> raw_text, thinking_closed |-> TRUE,
                   calls |-> IF token # "" THEN Append(st.calls, token) ELSE st.calls]
             ELSE [st EXCEPT !.raw_text = raw_text]
        ELSE [st EXCEPT !.raw_text = raw_text, !.calls = Append(st.calls, token)]

\* one pass of `for chunk in llm.stream(messages)` with a str token
stream_chunk(st, token) ==
    LET raw_text == st.raw_text \o token
    IN  IF ~st.thinking_closed
        THEN IF Find(raw_text, "</think>", 1) # 0
             THEN LET after == From(raw_text, Find(raw_text, "</think>", 1) + Len("</think>"))
                  IN  [raw_text |-> raw_text, thinking_closed |-> TRUE,
                       calls |-> IF after # "" THEN Append(st.calls, after) ELSE st.calls]
             ELSE [st EXCEPT !.raw_text = raw_text]
        ELSE [st EXCEPT !.raw_text = raw_text, !.calls = Append(st.calls, token)]

\* generate_response_for_persona from the point where the backend has returned
\* raw_text: [thoughts, response, updated_history] and the store after append_exchange
generate_response_for_persona(persona_ctx, input_text, raw_text, store) ==
    LET t == extract_thinking(raw_text)
        updated_history == persona_ctx.history
                             \o <<[role |-> "user", content |-> input_text]>>
                             \o <<[role |-> "assistant", content |-> t[2]]>>
    IN  [thoughts |-> t[1], response |-> t[2], updated_history |-> updated_history,
         store |-> append_exchange(store, persona_ctx.redis_key, input_text, t[2])]

(***************************************************************************)
(* The outside world of one session: what the moderator may type, what the *)
(* generation backend may return, the files on disk.                       *)
(***************************************************************************)
\* the most lines read at the room prompt in one session
MaxInputs == 2

\* lines typed at the room prompt
InputLines ==
    {"", "hello", "look !image ad.png",
     "!exit", "exit", "!reset", "!help",
     "!observe", "!observe \"best console ever\" 2",
     "!focus", "!focus @lena", "!focus @Marcus", "!focus @zed", "!focus lena",
     "!topic", "!topic tea", "!topic PS5",
     "!add @marcus", "!add @ravi", "!add @zed", "!add lena", "!add",
     "!kick @lena", "!kick @marcus", "!kick @zed",
     "!image ad.png", "!image missing.png", "!image huge.png", "!image notes.txt",
     "!image clear", "!image", "!images"}

\* lines typed at the "Topic >" prompt
TopicLines == {""}

\* texts the generation backend may return
RawTexts == {"<think>hm</think>ok"}

\* the image files of the session: whether the path exists, passes
\* validate_image, and the md5 of its bytes
FILES ==
    [p \in {"ad.png", "missing.png", "huge.png", "notes.txt"} |->
        CASE p = "ad.png"      -> [exists |-> TRUE,  valid |-> "ok",          hash |-> "h1"]
          [] p = "missing.png" -> [exists |-> FALSE, valid |-> "ok",          hash |-> ""]
          [] p = "huge.png"    -> [exists |-> TRUE,  valid |-> "too_large",   hash |-> "h2"]
          [] p = "notes.txt"   -> [exists |-> TRUE,  valid |-> "unsupported", hash |-> "h3"]]

\* input(...).strip() and detect_command on it, for every line the moderator
\* may type, under the alias table of the session: <<user_input, cmd_result>>
ParsedLines ==
    {<<Strip(line), detect_command(Strip(line), FULL_MENTION_MAP)>> : line \in InputLines}

(***************************************************************************)
(* Topic briefing (core/topic_context.py).                                 *)
(***************************************************************************)
DEFAULT_TOPIC == "PlayStation 5"

is_ps5(topic) == Lower(Strip(topic)) \in {"playstation 5", "ps5", "playstation5", "playstation"}

\* variant: the static PlayStation 5 briefing is returned for every topic
fetch_topic_context_Static(topic, found) == "PS5_CONTEXT"

\* found: whether the web lookup returned snippets
fetch_topic_context(topic, found) ==
    IF is_ps5(topic) THEN "PS5_CONTEXT"
    ELSE IF found THEN "TOPIC: " \o topic \o "\n\n- snippets"
    ELSE "TOPIC: " \o topic \o "\n\n[No additional context found. Draw on your general knowledge about "
            \o topic \o ".]"

(***************************************************************************)
(* State.                                                                  *)
(***************************************************************************)
VARIABLES
    room_state,   \* run()'s room_state
    redis,        \* the history store
    image_redis,  \* the image analysis cache and the session image index
    pc,           \* where run() is: "prompt", "turn", "observe", "synthesis", "exited", "crashed"
    frame,        \* the locals of the loop that is running
    cmd_result,   \* detect_command's result for the last line read
    last_call,    \* the arguments of the latest generation call
    inputs,       \* lines read so far
    log_mark,     \* len(full_log) when the last line was read
    op_call,      \* the latest direct call of a core/room.py operation (name, argument, input
                  \* state), or the _load_image call of the last line read (source, what it printed)
    observing_notice  \* the "... is observing" notice printed for the last line read, or ""

vars == <<room_state, redis, image_redis, pc, frame, cmd_result, last_call, inputs,
          log_mark, op_call, observing_notice>>

NoFrame == [kind |-> "none"]

\* load_persona_context (main.py): the history is read from the store
load_persona_context(persona_key, store) ==
    [persona_key |-> persona_key,
     name        |-> FULL_REGISTRY[persona_key].name,
     redis_key   |-> FULL_REGISTRY[persona_key].redis_key,
     history     |-> load_history(store, FULL_REGISTRY[persona_key].redis_key)]

\* choose_initial_personas: the typed words that are registry keys, as typed
\* ("1", "1 2", "2 2")
InitialSelections == {<<"1">>, <<"1", "2">>, <<"2", "2">>}

EmptyStore == [k \in {} |-> <<>>]

\* an exchange left under Lena's key by an earlier session
EarlierExchange ==
    <<[role |-> "user", content |-> "hi"], [role |-> "assistant", content |-> "hey"]>>

InitialStores == {[k \in {FULL_REGISTRY["1"].redis_key} |-> EarlierExchange]}

\* the session starts with the image store as images and the history store
\* one of stores: the room after the selection menu and the topic prompt
RoomStart(images, stores) ==
    \E initial_keys \in InitialSelections, raw \in TopicLines, found \in BOOLEAN,
       store \in stores :
        LET topic == IF raw # "" THEN raw ELSE DEFAULT_TOPIC
            personas == [k \in {initial_keys[i] : i \in 1..Len(initial_keys)} |->
                            load_persona_context(k, store)]
        IN  /\ (is_ps5(topic) => found)
            /\ room_state = [active_personas |-> initial_keys,
                             focus_persona   |-> "",
                             mode            |-> "chat",
                             personas        |-> personas,
                             full_log        |-> <<>>,
                             topic           |-> topic,
                             topic_context   |-> fetch_topic_context(topic, found),
                             image_contexts  |-> <<>>]
            /\ redis = store
            /\ image_redis = images
            /\ pc = "prompt"
            /\ frame = NoFrame
            /\ cmd_result = None
            /\ last_call = NoFrame
            /\ inputs = 0
            /\ log_mark = 0
            /\ op_call = NoFrame
            /\ observing_notice = ""

Init == RoomStart([analysis |-> {}, index |-> <<>>], InitialStores)

(***************************************************************************)
(* run(): reading a line and dispatching a command that needs no           *)
(* generation call (main.py, the while loop).                              *)
(***************************************************************************)
\* input().strip() at the room prompt gave line, and detect_command gave c
Read(line, c) ==
    /\ pc = "prompt"
    /\ inputs < MaxInputs
    /\ cmd_result' = c
    /\ inputs' = inputs + 1
    /\ log_mark' = Len(room_state.full_log)
    /\ observing_notice' = ""

\* "if not user_input: continue"
EmptyLine ==
    /\ pc = "prompt" /\ inputs < MaxInputs
    /\ \E p \in ParsedLines :
        /\ p[1] = ""
        /\ pc = "prompt" /\ inputs < MaxInputs
        /\ inputs' = inputs + 1
        /\ UNCHANGED <<room_state, redis, image_redis, pc, frame, cmd_result, last_call, log_mark, op_call, observing_notice>>

Exit ==
    /\ pc = "prompt" /\ inputs < MaxInputs
    /\ \E p \in ParsedLines : LET line == p[1]  c == p[2] IN
        /\ line # "" /\ c.cmd = "exit"
        /\ Read(line, c)
        /\ pc' = "exited"
        /\ op_call' = NoFrame
        /\ UNCHANGED <<room_state, redis, image_redis, frame, last_call>>

\* the reset loop over "active"
RECURSIVE ResetPersonas(_, _, _)
ResetPersonas(personas, active, i) ==
    IF i > Len(active) THEN personas
    ELSE ResetPersonas([personas EXCEPT ![active[i]].history = <<>>], active, i + 1)

RECURSIVE ResetSessions(_, _, _, _)
ResetSessions(store, personas, active, i) ==
    IF i > Len(active) THEN store
    ELSE ResetSessions(reset_session(store, personas[active[i]].redis_key),
                       personas, active, i + 1)

Reset ==
    /\ pc = "prompt" /\ inputs < MaxInputs
    /\ \E p \in ParsedLines : LET line == p[1]  c == p[2] IN
        /\ line # "" /\ c.cmd = "reset"
        /\ Read(line, c)
        /\ LET active == room_state.active_personas IN
            /\ redis' = ResetSessions(redis, room_state.personas, active, 1)
            /\ room_state' = [room_state EXCEPT
                                !.personas = ResetPersonas(room_state.personas, active, 1)]
        /\ op_call' = NoFrame
        /\ UNCHANGED <<image_redis, pc, frame, last_call>>

Focus ==
    /\ pc = "prompt" /\ inputs < MaxInputs
    /\ \E p \in ParsedLines : LET line == p[1]  c == p[2] IN
        /\ line # "" /\ c.cmd = "focus"
        /\ Read(line, c)
        /\ LET active == room_state.active_personas
               pkey   == c.persona_key
           IN  room_state' = IF ~InList(pkey, active) THEN room_state
                             ELSE set_focus(room_state, pkey)
        /\ op_call' = NoFrame
        /\ UNCHANGED <<redis, image_redis, pc, frame, last_call>>

Unfocus ==
    /\ pc = "prompt" /\ inputs < MaxInputs
    /\ \E p \in ParsedLines : LET line == p[1]  c == p[2] IN
        /\ line # "" /\ c.cmd = "unfocus"
        /\ Read(line, c)
        /\ room_state' = clear_focus(room_state)
        /\ op_call' = NoFrame
        /\ UNCHANGED <<redis, image_redis, pc, frame, last_call>>

\* variant: a persona whose load failed joins all the same
Add_JoinsUnloaded ==
    /\ pc = "prompt" /\ inputs < MaxInputs
    /\ \E p \in ParsedLines, loaded \in BOOLEAN : LET line == p[1]  c == p[2] IN
        /\ line # "" /\ c.cmd = "add"
        /\ Read(line, c)
        /\ LET active == room_state.active_personas
               pkey   == c.persona_key
               known  == pkey \in DOMAIN room_state.personas
               personas == IF known THEN room_state.personas
                           ELSE [k \in DOMAIN room_state.personas \cup {pkey} |->
                                    IF k = pkey THEN load_persona_context(pkey, redis)
                                    ELSE room_state.personas[k]]
               joined == add_persona_to_room([room_state EXCEPT !.personas = personas], pkey)
           IN  /\ (InList(pkey, active) \/ known) => loaded
               /\ room_state' =
                    IF InList(pkey, active) THEN room_state
                    ELSE IF ~known /\ ~loaded THEN add_persona_to_room(room_state, pkey)
                    ELSE append_log(joined, make_log_entry("system",
                            joined.personas[pkey].name \o " joined the room.", "", "", ""))
        /\ op_call' = NoFrame
        /\ UNCHANGED <<redis, image_redis, pc, frame, last_call>>

\* loaded: whether load_persona_context succeeds (the persona is in the directory)
Add ==
    /\ pc = "prompt" /\ inputs < MaxInputs
    /\ \E p \in ParsedLines, loaded \in BOOLEAN : LET line == p[1]  c == p[2] IN
        /\ line # "" /\ c.cmd = "add"
        /\ Read(line, c)
        /\ LET active == room_state.active_personas
               pkey   == c.persona_key
               known  == pkey \in DOMAIN room_state.personas
               personas == IF known THEN room_state.personas
                           ELSE [k \in DOMAIN room_state.personas \cup {pkey} |->
                                    IF k = pkey THEN load_persona_context(pkey, redis)
                                    ELSE room_state.personas[k]]
               joined == add_persona_to_room([room_state EXCEPT !.personas = personas], pkey)
           IN  /\ (InList(pkey, active) \/ known) => loaded
               /\ room_state' =
                    IF InList(pkey, active) THEN room_state
                    ELSE IF ~known /\ ~loaded THEN room_state
                    ELSE append_log(joined, make_log_entry("system",
                            joined.personas[pkey].name \o " joined the room.", "", "", ""))
        /\ op_call' = NoFrame
        /\ UNCHANGED <<redis, image_redis, pc, frame, last_call>>

Kick ==
    /\ pc = "prompt" /\ inputs < MaxInputs
    /\ \E p \in ParsedLines : LET line == p[1]  c == p[2] IN
        /\ line # "" /\ c.cmd = "kick"
        /\ Read(line, c)
        /\ LET active == room_state.active_personas
               pkey   == c.persona_key
           IN  room_state' =
                    IF ~InList(pkey, active) THEN room_state
                    ELSE append_log(kick_persona_from_room(room_state, pkey),
                            make_log_entry("system",
                                room_state.personas[pkey].name \o " left the room.", "", "", ""))
        /\ op_call' = NoFrame
        /\ UNCHANGED <<redis, image_redis, pc, frame, last_call>>

TopicSet ==
    /\ pc = "prompt" /\ inputs < MaxInputs
    /\ \E p \in ParsedLines, found \in BOOLEAN : LET line == p[1]  c == p[2] IN
        /\ line # "" /\ c.cmd = "topic_set"
        /\ Read(line, c)
        /\ is_ps5(c.topic) => found
        /\ room_state' = append_log(
                [room_state EXCEPT !.topic = c.topic,
                                   !.topic_context = fetch_topic_context(c.topic, found)],
                make_log_entry("system", "Topic changed to: " \o c.topic, "", "", ""))
        /\ op_call' = NoFrame
        /\ UNCHANGED <<redis, image_redis, pc, frame, last_call>>

TopicClear ==
    /\ pc = "prompt" /\ inputs < MaxInputs
    /\ \E p \in ParsedLines : LET line == p[1]  c == p[2] IN
        /\ line # "" /\ c.cmd = "topic_clear"
        /\ Read(line, c)
        /\ room_state' = [room_state EXCEPT
                            !.topic = DEFAULT_TOPIC,
                            !.topic_context = fetch_topic_context(DEFAULT_TOPIC, TRUE)]
        /\ op_call' = NoFrame
        /\ UNCHANGED <<redis, image_redis, pc, frame, last_call>>

\* image_list, help, did_you_mean, usage_hint, add_unknown, kick_unknown,
\* focus_unknown: a message is printed
PrintOnly ==
    /\ pc = "prompt" /\ inputs < MaxInputs
    /\ \E p \in ParsedLines : LET line == p[1]  c == p[2] IN
        /\ line # ""
        /\ c.cmd \in {"image_list", "help", "did_you_mean", "usage_hint",
                      "add_unknown", "kick_unknown", "focus_unknown"}
        /\ Read(line, c)
        /\ op_call' = NoFrame
        /\ UNCHANGED <<room_state, redis, image_redis, pc, frame, last_call>>

(***************************************************************************)
(* Images (main.py _load_image, _build_image_context; services/            *)
(* image_analysis/service.py, image_redis.py).                             *)
(***************************************************************************)
\* set_analysis: store the analysis, push the hash on the index if absent
set_analysis(store, md5_hex) ==
    [analysis |-> store.analysis \cup {md5_hex},
     index    |-> IF InList(md5_hex, store.index) THEN store.index
                  ELSE store.index \o <<md5_hex>>]

clear_index(store) == [store EXCEPT !.index = <<>>]

\* analyze_image; analysed: whether the vision call returns a usable analysis.
\* err is "" on success, else the exception raised.
analyze_image(path, store, analysed) ==
    LET f == FILES[path] IN
    IF f.valid = "unsupported" THEN [err |-> "UnsupportedFormatError", store |-> store]
    ELSE IF f.valid = "too_large" THEN [err |-> "ImageTooLargeError", store |-> store]
    ELSE IF f.hash \in store.analysis
        THEN [err |-> "", filename |-> path, hash |-> f.hash, cached |-> TRUE, store |-> store]
    ELSE IF ~analysed THEN [err |-> "AnalysisError", store |-> store]
    ELSE [err |-> "", filename |-> path, hash |-> f.hash, cached |-> FALSE,
          store |-> set_analysis(store, f.hash)]

\* get_loaded_images: the hashes of the index that have an analysis
get_loaded_images(store) == SelectSeq(store.index, LAMBDA h : h \in store.analysis)

\* _build_image_context: the images the briefing lists ("" is the empty list)
_build_image_context(state, store) ==
    IF state.image_contexts = <<>> THEN <<>> ELSE get_loaded_images(store)

\* what _load_image prints for an exception of analyze_image (the start of it)
image_error(err) ==
    CASE err = "ImageTooLargeError" -> "Image is too large"
      [] err = "UnsupportedFormatError" -> "Unsupported format"
      [] err = "AnalysisError" -> "Image analysis failed"

\* variant: the attempt is logged before the file is looked at
_load_image_LogsAttempt(source, state, store, analysed) ==
    IF source \notin DOMAIN FILES \/ ~FILES[source].exists
    THEN <<append_log(state, make_log_entry("system", "Image loaded: " \o source, "", "", "")), store, "File not found">>
    ELSE LET r == analyze_image(source, store, analysed) IN
         IF r.err # "" THEN <<append_log(state, make_log_entry("system", "Image loaded: " \o source, "", "", "")), r.store, image_error(r.err)>>
         ELSE LET existing == IF \E i \in 1..Len(state.image_contexts) :
                                     state.image_contexts[i].hash = r.hash
                              THEN state.image_contexts
                              ELSE state.image_contexts
                                     \o <<[filename |-> r.filename, hash |-> r.hash]>>
                  updated == [state EXCEPT !.image_contexts = existing]
              IN  <<append_log(updated, make_log_entry("system",
                        "Image loaded: " \o source, "", "", "")), r.store,
                    IF r.cached THEN "Image cached" ELSE "Image analyzed">>

\* _load_image: <<room state, image store, what is printed (the start of it)>>
_load_image(source, state, store, analysed) ==
    IF source \notin DOMAIN FILES \/ ~FILES[source].exists
    THEN <<state, store, "File not found">>
    ELSE LET r == analyze_image(source, store, analysed) IN
         IF r.err # "" THEN <<state, r.store, image_error(r.err)>>
         ELSE LET existing == IF \E i \in 1..Len(state.image_contexts) :
                                     state.image_contexts[i].hash = r.hash
                              THEN state.image_contexts
                              ELSE state.image_contexts
                                     \o <<[filename |-> r.filename, hash |-> r.hash]>>
                  updated == [state EXCEPT !.image_contexts = existing]
              IN  <<append_log(updated, make_log_entry("system",
                        "Image loaded: " \o source, "", "", "")), r.store,
                    IF r.cached THEN "Image cached" ELSE "Image analyzed">>

ImageLoad ==
    /\ pc = "prompt" /\ inputs < MaxInputs
    /\ \E p \in ParsedLines, analysed \in BOOLEAN : LET line == p[1]  c == p[2] IN
        /\ line # "" /\ c.cmd = "image_load"
        /\ Read(line, c)
        /\ LET r == _load_image(c.source, room_state, image_redis, analysed) IN
            /\ room_state' = r[1]
            /\ image_redis' = r[2]
            /\ op_call' = [op |-> "_load_image", key |-> c.source, report |-> r[3]]
        /\ UNCHANGED <<redis, pc, frame, last_call>>

ImageClear ==
    /\ pc = "prompt" /\ inputs < MaxInputs
    /\ \E p \in ParsedLines : LET line == p[1]  c == p[2] IN
        /\ line # "" /\ c.cmd = "image_clear"
        /\ Read(line, c)
        /\ image_redis' = clear_index(image_redis)
        /\ room_state' = append_log([room_state EXCEPT !.image_contexts = <<>>],
                            make_log_entry("system", "Image context cleared.", "", "", ""))
        /\ op_call' = NoFrame
        /\ UNCHANGED <<redis, pc, frame, last_call>>

(***************************************************************************)
(* Normal conversation (main.py run, after the command dispatch).          *)
(***************************************************************************)
\* re.search(r'!image\s+(.+)', user_input, re.IGNORECASE): <<start, start of
\* group(1)>>, or <<0, 0>>
RECURSIVE InlineImageSearch(_, _)
InlineImageSearch(user_input, i) ==
    LET p == Find(Lower(user_input), "!image", i)
        e == IF p = 0 THEN 0 ELSE LStripIdx(user_input, p + Len("!image"))
    IN  IF p = 0 THEN <<0, 0>>
        ELSE IF e > p + Len("!image") /\ e <= Len(user_input) THEN <<p, e>>
        ELSE InlineImageSearch(user_input, p + 1)

\* sep.join(list)
RECURSIVE Join(_, _, _)
Join(sep, list, i) ==
    IF i > Len(list) THEN ""
    ELSE IF i = Len(list) THEN list[i]
    ELSE list[i] \o sep \o Join(sep, list, i + 1)

\* the names of the active personas that have a context, in active order
RECURSIVE RoomNames(_, _, _)
RoomNames(personas, active, i) ==
    IF i > Len(active) THEN <<>>
    ELSE (IF active[i] \in DOMAIN personas THEN <<personas[active[i]].name>> ELSE <<>>)
            \o RoomNames(personas, active, i + 1)

\* variant: only the first active persona answers
responders_FirstOnly(focus, active) ==
    IF focus # "" /\ InList(focus, active) THEN <<focus>> ELSE <<active[1]>>

\* variant: the focus is not looked at
responders_Everyone(focus, active) == active

\* responders = [focus] if (focus and focus in active) else list(active)
responders(focus, active) ==
    IF focus # "" /\ InList(focus, active) THEN <<focus>> ELSE active

\* the lines read, with the search for an inline image made on each:
\* <<user_input, cmd_result, inline_img>>
MessageLines == {<<p[1], p[2], InlineImageSearch(p[1], 1)>> : p \in ParsedLines}

\* a plain message: the inline image, the moderator entry, the responders
Message ==
    /\ pc = "prompt" /\ inputs < MaxInputs
    /\ \E p \in MessageLines, analysed \in BOOLEAN : LET line == p[1]  c == p[2] IN
        /\ line # "" /\ c = None
        /\ Read(line, c)
        /\ LET user_input0 == line
               active == room_state.active_personas
               focus  == room_state.focus_persona
               inline_img == p[3]
               raw_source0 == Strip(From(user_input0, inline_img[2]))
               quoted == Len(raw_source0) >= 2
                           /\ Char(raw_source0, 1) = Char(raw_source0, Len(raw_source0))
                           /\ Char(raw_source0, 1) \in {"'", "\""}
               raw_source == IF quoted THEN SubSeq(raw_source0, 2, Len(raw_source0) - 1)
                             ELSE raw_source0
               loaded == IF inline_img[1] # 0
                         THEN _load_image(raw_source, room_state, image_redis, analysed)
                         ELSE <<room_state, image_redis, "">>
               user_input == IF inline_img[1] # 0
                             THEN Strip(SubSeq(user_input0, 1, inline_img[1] - 1))
                             ELSE user_input0
           IN  /\ (inline_img[1] = 0 => analysed)
               /\ image_redis' = loaded[2]
               /\ op_call' = IF inline_img[1] # 0
                             THEN [op |-> "_load_image", key |-> raw_source,
                                   report |-> loaded[3]]
                             ELSE NoFrame
               /\ IF user_input = "" \/ active = <<>>
                  THEN /\ room_state' = loaded[1]
                       /\ UNCHANGED <<pc, frame>>
                  ELSE /\ room_state' = append_log(loaded[1],
                                            make_log_entry("user", user_input, "", "", ""))
                       /\ pc' = "turn"
                       /\ frame' = [user_input |-> user_input,
                                    active     |-> active,
                                    focus      |-> focus,
                                    responders |-> responders(focus, active),
                                    all_room_names |->
                                        RoomNames(room_state.personas, active, 1),
                                    i |-> 1]
        /\ UNCHANGED <<redis, last_call>>

\* the notice printed after the responder loop of a message sent under a
\* focus: the names of the other active personas, or "" when nothing is printed
observers_notice(focus, active, personas) ==
    LET observers == RoomNames(personas, SelectSeq(active, LAMBDA k : k # focus), 1)
    IN  IF focus = "" \/ observers = <<>> THEN ""
        ELSE "  [" \o Join(", ", observers, 1) \o " "
               \o (IF Len(observers) = 1 THEN "is" ELSE "are") \o " observing]"

\* variant: the input is saved before the backend is called, so an interrupt
\* during the stream leaves it in the store without a reply
interrupted_store_InputSaved(store, persona_ctx, input_text, r, persisted) ==
    IF persisted THEN r.store
    ELSE save_history(store, persona_ctx.redis_key,
                      load_history(store, persona_ctx.redis_key)
                        \o <<[role |-> "user", content |-> input_text]>>)

\* the history store after a generation call that a KeyboardInterrupt ended:
\* append_exchange comes after the stream, so the store has the whole
\* exchange (persisted) or nothing of it
interrupted_store(store, persona_ctx, input_text, r, persisted) ==
    IF persisted THEN r.store ELSE store

\* how a generation call that a KeyboardInterrupt ended is recorded: the
\* interrupt came while the backend was streaming, or after append_exchange
\* had saved and before stream_persona_response returned
Interrupted(persisted) == IF persisted THEN "interrupted_after_save" ELSE "interrupted"

\* "After this many exchanges, the persona can start hinting they need to leave"
_LONG_SESSION_THRESHOLD == 15

\* variant: the hint is given only on the turn the threshold is reached
system_with_thinking_HintOnce(history, topic_context, image_context, room_participants) ==
    <<"system_prompt">>
      \o (IF topic_context # "" THEN <<"_topic_block">> ELSE <<>>)
      \o (IF image_context # <<>> THEN <<"_image_block">> ELSE <<>>)
      \o (IF room_participants # <<>> THEN <<"_room_constraint">> ELSE <<>>)
      \o <<"THINKING_INSTRUCTION">>
      \o (IF Len(history) \div 2 = _LONG_SESSION_THRESHOLD
          THEN <<"_LONG_SESSION_HINT">> ELSE <<>>)

\* the blocks system_with_thinking is put together from, in order
system_with_thinking(history, topic_context, image_context, room_participants) ==
    <<"system_prompt">>
      \o (IF topic_context # "" THEN <<"_topic_block">> ELSE <<>>)
      \o (IF image_context # <<>> THEN <<"_image_block">> ELSE <<>>)
      \o (IF room_participants # <<>> THEN <<"_room_constraint">> ELSE <<>>)
      \o <<"THINKING_INSTRUCTION">>
      \o (IF Len(history) \div 2 >= _LONG_SESSION_THRESHOLD
          THEN <<"_LONG_SESSION_HINT">> ELSE <<>>)

\* variant: the new input is put before the history
llm_messages_InputFirst(system, history, input_text) ==
    <<[type |-> "system", content |-> system], [type |-> "human", content |-> input_text]>>
      \o [i \in 1..Len(history) |->
            [type |-> IF history[i].role = "user" THEN "human" ELSE "ai",
             content |-> history[i].content]]

\* the messages given to the backend: SystemMessage, a HumanMessage for an
\* entry of role "user" and an AIMessage for any other, HumanMessage(input_text)
llm_messages(system, history, input_text) ==
    <<[type |-> "system", content |-> system]>>
      \o [i \in 1..Len(history) |->
            [type |-> IF history[i].role = "user" THEN "human" ELSE "ai",
             content |-> history[i].content]]
      \o <<[type |-> "human", content |-> input_text]>>

\* variant: the roster passed names the others in the room, not the speaker
GenerationCall_OthersOnly(ctx, input_text, is_observe, room_participants, outcome) ==
    [outcome |-> outcome, persona_key |-> ctx.persona_key, history |-> ctx.history, input_text |-> input_text,
     is_observe |-> is_observe,
     room_participants |-> SelectSeq(room_participants, LAMBDA n : n # ctx.name),
     topic_context |-> room_state.topic_context,
     image_context |-> _build_image_context(room_state, image_redis),
     messages |-> llm_messages(
                    system_with_thinking(ctx.history, room_state.topic_context,
                        _build_image_context(room_state, image_redis),
                        SelectSeq(room_participants, LAMBDA n : n # ctx.name)),
                    ctx.history, input_text)]

\* the arguments stream_persona_response passes to generate_response_for_persona,
\* and how the call ended: "returned", "interrupted", "interrupted_after_save", "failed"
GenerationCall(ctx, input_text, is_observe, room_participants, outcome) ==
    [outcome |-> outcome, persona_key |-> ctx.persona_key, history |-> ctx.history, input_text |-> input_text,
     is_observe |-> is_observe, room_participants |-> room_participants,
     topic_context |-> room_state.topic_context,
     image_context |-> _build_image_context(room_state, image_redis),
     messages |-> llm_messages(
                    system_with_thinking(ctx.history, room_state.topic_context,
                        _build_image_context(room_state, image_redis), room_participants),
                    ctx.history, input_text)]

\* variant: the history is updated but the turn is not logged
AfterTurn_NoLog(state, pkey, r) ==
    [state EXCEPT !.personas[pkey].history = r.updated_history]

\* the room state after a turn of pkey that returned r
AfterTurn(state, pkey, r) ==
    LET ctx == state.personas[pkey] IN
    append_log([state EXCEPT !.personas[pkey].history = r.updated_history],
               make_log_entry("persona", r.response, pkey, ctx.name, r.thoughts))

\* one iteration of "for pkey in responders" that runs to its end
Respond ==
    \E raw_text \in RawTexts :
        /\ pc = "turn"
        /\ LET pkey == frame.responders[frame.i]
               ctx  == room_state.personas[pkey]
               r    == generate_response_for_persona(ctx, frame.user_input, raw_text, redis)
           IN  /\ last_call' = GenerationCall(ctx, frame.user_input, FALSE,
                                              frame.all_room_names, "returned")
               /\ redis' = r.store
               /\ room_state' = AfterTurn(room_state, pkey, r)
               /\ IF frame.i = Len(frame.responders)
                  THEN /\ pc' = "prompt" /\ frame' = NoFrame
                       /\ observing_notice' =
                            observers_notice(frame.focus, frame.active, room_state.personas)
                  ELSE /\ pc' = "turn" /\ frame' = [frame EXCEPT !.i = frame.i + 1]
                       /\ UNCHANGED observing_notice
        /\ UNCHANGED <<image_redis, cmd_result, inputs, log_mark, op_call>>

\* KeyboardInterrupt during the generation call of a responder: "break".
\* persisted: whether the interrupt came after append_exchange had saved.
RespondInterrupted ==
    \E raw_text \in RawTexts, persisted \in BOOLEAN :
        /\ pc = "turn"
        /\ LET pkey == frame.responders[frame.i]
               ctx  == room_state.personas[pkey]
               r    == generate_response_for_persona(ctx, frame.user_input, raw_text, redis)
           IN  /\ last_call' = GenerationCall(ctx, frame.user_input, FALSE,
                                              frame.all_room_names, Interrupted(persisted))
               /\ redis' = interrupted_store(redis, ctx, frame.user_input, r, persisted)
        /\ pc' = "prompt" /\ frame' = NoFrame
        /\ observing_notice' = observers_notice(frame.focus, frame.active, room_state.personas)
        /\ UNCHANGED <<room_state, image_redis, cmd_result, inputs, log_mark, op_call>>

(***************************************************************************)
(* Observe mode (main.py run_observe).                                     *)
(***************************************************************************)
_DEFAULT_OBSERVE_ROUNDS == 3

\* the content of the latest "user" entry of the log, or ""
RECURSIVE LastUserContent(_, _)
LastUserContent(full_log, i) ==
    IF i < 1 THEN ""
    ELSE IF full_log[i].type = "user" THEN full_log[i].content
    ELSE LastUserContent(full_log, i - 1)

\* variant: the latest moderator message is taken before the topic argument
ObserveSeed_MessageFirst(state, observe_topic) ==
    LET from_log == IF LastUserContent(state.full_log, Len(state.full_log)) # ""
                    THEN LastUserContent(state.full_log, Len(state.full_log))
                    ELSE observe_topic
    IN  IF from_log # "" THEN from_log
        ELSE "Share your honest thoughts on " \o state.topic \o "."

ObserveSeed(state, observe_topic) ==
    LET from_log == IF observe_topic # "" THEN observe_topic
                    ELSE LastUserContent(state.full_log, Len(state.full_log))
    IN  IF from_log # "" THEN from_log
        ELSE "Share your honest thoughts on " \o state.topic \o "."

_make_seed_prompt(speaker_list, seed) ==
    "[The moderator has stepped back. Only " \o speaker_list \o " are in this room -- "
      \o "speak only to each other. The moderator wants you to discuss: \"" \o seed \o "\". "
      \o "If you disagree, don't just move on -- negotiate, push back, and try to find "
      \o "what's genuinely fair. Make any agreement feel earned, not polite.]"

\* current_prompt after ctx_name said response
ReplyPrompt(ctx_name, response, all_names, speaker_list, seed) ==
    LET other_names == SelectSeq(all_names, LAMBDA n : n # ctx_name)
        addressee   == IF other_names # <<>> THEN Join(" and ", other_names, 1)
                       ELSE "the other participant"
    IN  "[" \o ctx_name \o " just said to " \o addressee \o "]: \"" \o response \o "\"\n"
          \o "[You are " \o addressee \o ". Respond directly to " \o ctx_name \o ". "
          \o "Only " \o speaker_list \o " are in this room. Keep the discussion on: \""
          \o seed \o "\"]"

synthesis_prompt(topic) ==
    "[The observation is complete. The moderator now asks you directly: "
      \o "Based on everything discussed about " \o topic \o ", what specific offer, "
      \o "price point, bundle, or product version would actually work for you? "
      \o "Don't generalise -- give a concrete, honest answer the moderator can act on. "
      \o "What would make you say yes?]"

\* variant: a single persona is enough
too_few_to_observe_One(active) == Len(active) < 1

\* "if len(active) < 2": the request is turned down
too_few_to_observe(active) == Len(active) < 2

\* run_observe up to its first generation call
Observe ==
    /\ pc = "prompt" /\ inputs < MaxInputs
    /\ \E p \in ParsedLines : LET line == p[1]  c == p[2] IN
        /\ line # "" /\ c.cmd = "observe"
        /\ Read(line, c)
        /\ LET observe_topic  == Get(c, "observe_topic", "")
               observe_rounds == Get(c, "observe_rounds", 0)
               active == room_state.active_personas
               rounds == IF observe_rounds > 0 THEN observe_rounds
                         ELSE _DEFAULT_OBSERVE_ROUNDS
               seed   == ObserveSeed(room_state, observe_topic)
               round_label == ToString(rounds) \o " round" \o (IF rounds # 1 THEN "s" ELSE "")
               log_note == "Observing (" \o round_label \o ")"
                             \o (IF observe_topic # "" THEN ": " \o observe_topic ELSE "")
                             \o "."
               all_names == RoomNames(room_state.personas, active, 1)
               speaker_list == Join(" and ", all_names, 1)
           IN  IF too_few_to_observe(active)
               THEN UNCHANGED <<room_state, pc, frame>>
               ELSE /\ room_state' = append_log(room_state,
                                        make_log_entry("system", log_note, "", "", ""))
                    /\ pc' = "observe"
                    /\ frame' = [active |-> active, rounds |-> rounds, seed |-> seed,
                                 all_names |-> all_names, speaker_list |-> speaker_list,
                                 current_prompt |-> _make_seed_prompt(speaker_list, seed),
                                 round_count |-> 0, i |-> 1]
        /\ op_call' = NoFrame
        /\ UNCHANGED <<redis, image_redis, last_call>>

\* one iteration of the dialogue loop that runs to its end; after the last
\* turn of the last round "completed" is set and the synthesis round starts
ObserveTurn ==
    \E raw_text \in RawTexts :
        /\ pc = "observe"
        /\ LET pkey == frame.active[frame.i]
               ctx  == room_state.personas[pkey]
               r    == generate_response_for_persona(ctx, frame.current_prompt, raw_text, redis)
               last_of_round == frame.i = Len(frame.active)
               round_count == IF last_of_round THEN frame.round_count + 1
                              ELSE frame.round_count
           IN  /\ last_call' = GenerationCall(ctx, frame.current_prompt, TRUE,
                                              frame.all_names, "returned")
               /\ redis' = r.store
               /\ room_state' = AfterTurn(room_state, pkey, r)
               /\ IF round_count < frame.rounds
                  THEN /\ pc' = "observe"
                       /\ frame' = [frame EXCEPT
                                      !.current_prompt = ReplyPrompt(ctx.name, r.response,
                                            frame.all_names, frame.speaker_list, frame.seed),
                                      !.round_count = round_count,
                                      !.i = IF last_of_round THEN 1 ELSE frame.i + 1]
                  ELSE /\ pc' = "synthesis"
                       /\ frame' = [active |-> frame.active, rounds |-> frame.rounds,
                                    seed |-> frame.seed, all_names |-> frame.all_names,
                                    round_count |-> round_count,
                                    synthesis_prompt |-> synthesis_prompt(room_state.topic),
                                    i |-> 1]
        /\ UNCHANGED <<image_redis, cmd_result, inputs, log_mark, op_call, observing_notice>>

\* variant: the interrupt ends the dialogue but the synthesis round still runs
ObserveInterrupted_Synthesis ==
    /\ pc = "observe"
    /\ pc' = "synthesis"
    /\ frame' = [active |-> frame.active, rounds |-> frame.rounds,
                 seed |-> frame.seed, all_names |-> frame.all_names,
                 round_count |-> frame.round_count,
                 synthesis_prompt |-> synthesis_prompt(room_state.topic),
                 i |-> 1]
    /\ last_call' = GenerationCall(room_state.personas[frame.active[frame.i]],
                                   frame.current_prompt, TRUE, frame.all_names, "interrupted")
    /\ UNCHANGED <<room_state, redis, image_redis, cmd_result, inputs, log_mark, op_call, observing_notice>>

\* KeyboardInterrupt during a dialogue turn: "Observation stopped", no synthesis
ObserveInterrupted ==
    \E raw_text \in RawTexts, persisted \in BOOLEAN :
        /\ pc = "observe"
        /\ LET pkey == frame.active[frame.i]
               ctx  == room_state.personas[pkey]
               r    == generate_response_for_persona(ctx, frame.current_prompt, raw_text, redis)
           IN  /\ last_call' = GenerationCall(ctx, frame.current_prompt, TRUE,
                                              frame.all_names, Interrupted(persisted))
               /\ redis' = interrupted_store(redis, ctx, frame.current_prompt, r, persisted)
        /\ pc' = "prompt" /\ frame' = NoFrame
        /\ UNCHANGED <<room_state, image_redis, cmd_result, inputs, log_mark, op_call, observing_notice>>

\* variant: the synthesis loop leaves out the last of the active personas
SynthesisTurn_SkipsLast ==
    \E raw_text \in RawTexts :
        /\ pc = "synthesis"
        /\ LET pkey == frame.active[frame.i]
               ctx  == room_state.personas[pkey]
               r    == generate_response_for_persona(ctx, frame.synthesis_prompt, raw_text, redis)
           IN  /\ last_call' = GenerationCall(ctx, frame.synthesis_prompt, TRUE,
                                              frame.all_names, "returned")
               /\ redis' = r.store
               /\ room_state' = AfterTurn(room_state, pkey, r)
               /\ IF frame.i >= Len(frame.active) - 1
                  THEN pc' = "prompt" /\ frame' = NoFrame
                  ELSE pc' = "synthesis" /\ frame' = [frame EXCEPT !.i = frame.i + 1]
        /\ UNCHANGED <<image_redis, cmd_result, inputs, log_mark, op_call, observing_notice>>

\* one iteration of the synthesis loop that runs to its end
SynthesisTurn ==
    \E raw_text \in RawTexts :
        /\ pc = "synthesis"
        /\ LET pkey == frame.active[frame.i]
               ctx  == room_state.personas[pkey]
               r    == generate_response_for_persona(ctx, frame.synthesis_prompt, raw_text, redis)
           IN  /\ last_call' = GenerationCall(ctx, frame.synthesis_prompt, TRUE,
                                              frame.all_names, "returned")
               /\ redis' = r.store
               /\ room_state' = AfterTurn(room_state, pkey, r)
               /\ IF frame.i = Len(frame.active)
                  THEN pc' = "prompt" /\ frame' = NoFrame
                  ELSE pc' = "synthesis" /\ frame' = [frame EXCEPT !.i = frame.i + 1]
        /\ UNCHANGED <<image_redis, cmd_result, inputs, log_mark, op_call, observing_notice>>

\* KeyboardInterrupt during a synthesis turn: "break"
SynthesisInterrupted ==
    \E raw_text \in RawTexts, persisted \in BOOLEAN :
        /\ pc = "synthesis"
        /\ LET pkey == frame.active[frame.i]
               ctx  == room_state.personas[pkey]
               r    == generate_response_for_persona(ctx, frame.synthesis_prompt, raw_text, redis)
           IN  /\ last_call' = GenerationCall(ctx, frame.synthesis_prompt, TRUE,
                                              frame.all_names, Interrupted(persisted))
               /\ redis' = interrupted_store(redis, ctx, frame.synthesis_prompt, r, persisted)
        /\ pc' = "prompt" /\ frame' = NoFrame
        /\ UNCHANGED <<room_state, image_redis, cmd_result, inputs, log_mark, op_call, observing_notice>>

\* the backend call raises an Exception: no handler in run() or run_observe()
\* catches it, and the process ends with the traceback
GenerationFailed ==
    /\ pc \in {"turn", "observe", "synthesis"}
    /\ LET pkey == IF pc = "turn" THEN frame.responders[frame.i] ELSE frame.active[frame.i]
           input_text == IF pc = "turn" THEN frame.user_input
                         ELSE IF pc = "observe" THEN frame.current_prompt
                         ELSE frame.synthesis_prompt
           room_participants == IF pc = "turn" THEN frame.all_room_names ELSE frame.all_names
       IN  last_call' = GenerationCall(room_state.personas[pkey], input_text, pc # "turn",
                                       room_participants, "failed")
    /\ pc' = "crashed"
    /\ frame' = NoFrame
    /\ UNCHANGED <<room_state, redis, image_redis, cmd_result, inputs, log_mark, op_call, observing_notice>>

Next ==
    \/ EmptyLine
    \/ Exit
    \/ Reset
    \/ Observe
    \/ Focus
    \/ Unfocus
    \/ Add
    \/ Kick
    \/ TopicSet
    \/ TopicClear
    \/ ImageLoad
    \/ ImageClear
    \/ PrintOnly
    \/ Message
    \/ Respond
    \/ RespondInterrupted
    \/ ObserveTurn
    \/ ObserveInterrupted
    \/ SynthesisTurn
    \/ SynthesisInterrupted
    \/ GenerationFailed

Spec == Init /\ [][Next]_vars

\* The image keys outlive the session: the analyses expire after
\* IMAGE_ANALYSIS_TTL (7 days) and the index is deleted only by !image clear.
\* What an earlier session can leave: ad.png analysed and the index cleared;
\* another image ("h0") analysed and still in the index.
EarlierImageStores ==
    {[analysis |-> {FILES["ad.png"].hash}, index |-> <<>>],
     [analysis |-> {"h0"}, index |-> <<"h0">>]}

InitRestart == \E images \in EarlierImageStores : RoomStart(images, InitialStores)

\* a session started on the store an earlier session left
SpecRestart == InitRestart /\ [][Next]_vars

\* Lena comes back after earlier sessions of 14 exchanges in all: one below
\* _LONG_SESSION_THRESHOLD
RecurringStores ==
    {[k \in {FULL_REGISTRY["1"].redis_key} |->
        [i \in 1..(2 * (_LONG_SESSION_THRESHOLD - 1)) |->
            EarlierExchange[IF i % 2 = 1 THEN 1 ELSE 2]]]}

InitRecurring == RoomStart([analysis |-> {}, index |-> <<>>], RecurringStores)

\* a session of personas that have been in many
SpecRecurring == InitRecurring /\ [][Next]_vars

(***************************************************************************)
(* The room operations of core/room.py applied directly, as the unit       *)
(* tests of tests/test_core.py apply them: to any room state, with any     *)
(* key.  op_call keeps the name, the argument and the input state of the   *)
(* latest call.                                                            *)
(***************************************************************************)
MaxActive == 2
MaxLog == 2

\* the lists over Keys of length n
RECURSIVE KeyLists(_)
KeyLists(n) ==
    IF n = 0 THEN {<<>>}
    ELSE {l \o <<k>> : l \in KeyLists(n - 1), k \in Keys}

\* the log entries a caller hands to append_log
SampleEntries ==
    {make_log_entry("user", "hello", "", "", ""),
     make_log_entry("persona", "ok", "1", "Lena", "hm")}

RoomStates ==
    {[active_personas |-> active,
      focus_persona   |-> focus,
      mode            |-> "chat",
      personas        |-> EmptyStore,
      full_log        |-> <<>>,
      topic           |-> DEFAULT_TOPIC,
      topic_context   |-> "",
      image_contexts  |-> <<>>] :
        active \in UNION {KeyLists(n) : n \in 0..MaxActive}, focus \in Keys \cup {""}}

InitRoom ==
    /\ room_state \in RoomStates
    /\ redis = EmptyStore
    /\ image_redis = [analysis |-> {}, index |-> <<>>]
    /\ pc = "room"
    /\ frame = NoFrame
    /\ cmd_result = None
    /\ last_call = NoFrame
    /\ inputs = 0
    /\ log_mark = 0
    /\ op_call = NoFrame
    /\ observing_notice = ""

ApplyAdd ==
    \E k \in Keys :
        /\ room_state' = add_persona_to_room(room_state, k)
        /\ op_call' = [op |-> "add", key |-> k, before |-> room_state]
        /\ UNCHANGED <<redis, image_redis, pc, frame, cmd_result, last_call, inputs, log_mark, observing_notice>>

ApplyKick ==
    \E k \in Keys :
        /\ room_state' = kick_persona_from_room(room_state, k)
        /\ op_call' = [op |-> "kick", key |-> k, before |-> room_state]
        /\ UNCHANGED <<redis, image_redis, pc, frame, cmd_result, last_call, inputs, log_mark, observing_notice>>

ApplySetFocus ==
    \E k \in Keys :
        /\ room_state' = set_focus(room_state, k)
        /\ op_call' = [op |-> "set_focus", key |-> k, before |-> room_state]
        /\ UNCHANGED <<redis, image_redis, pc, frame, cmd_result, last_call, inputs, log_mark, observing_notice>>

ApplyClearFocus ==
    /\ room_state' = clear_focus(room_state)
    /\ op_call' = [op |-> "clear_focus", key |-> "", before |-> room_state]
    /\ UNCHANGED <<redis, image_redis, pc, frame, cmd_result, last_call, inputs, log_mark, observing_notice>>

ApplyAppendLog ==
    \E entry \in SampleEntries :
        /\ Len(room_state.full_log) < MaxLog
        /\ room_state' = append_log(room_state, entry)
        /\ op_call' = [op |-> "append_log", key |-> "", before |-> room_state]
        /\ UNCHANGED <<redis, image_redis, pc, frame, cmd_result, last_call, inputs, log_mark, observing_notice>>

NextRoom ==
    \/ ApplyAdd
    \/ ApplyKick
    \/ ApplySetFocus
    \/ ApplyClearFocus
    \/ ApplyAppendLog

SpecRoom == InitRoom /\ [][NextRoom]_vars

(***************************************************************************)
(* The streaming branch of generate_response_for_persona and                *)
(* extract_thinking on texts cut into chunks in every way.                  *)
(***************************************************************************)
\* the most chunks a stream is cut into
MaxTokens == 3

\* the texts of the backend, by their parts: what is before the block, what is
\* inside it, what is after it; block = FALSE puts no block between pre and post
StreamParts ==
    {[block |-> TRUE, pre |-> pre, inner |-> inner, post |-> post] :
        pre \in {"", " p"}, inner \in {"", " a\nb "}, post \in {"", " c ", "d</think>e"}}
    \cup
    {[block |-> FALSE, pre |-> pre, inner |-> "", post |-> ""] :
        pre \in {"", " hi ", "<think>a", "a</think> b"}}

\* the text of the parts
StreamText(parts) ==
    IF parts.block
    THEN parts.pre \o "<think>" \o parts.inner \o "</think>" \o parts.post
    ELSE parts.pre

InitStream ==
    /\ \E parts \in StreamParts :
         frame = [kind |-> "stream", parts |-> parts, text |-> StreamText(parts),
                  pos |-> 0, tokens |-> <<>>, st |-> StreamStart,
                  result |-> <<"", "">>]
    /\ pc = "stream"
    /\ room_state \in {r \in RoomStates : r.active_personas = <<>> /\ r.focus_persona = ""}
    /\ redis = EmptyStore
    /\ image_redis = [analysis |-> {}, index |-> <<>>]
    /\ cmd_result = None
    /\ last_call = NoFrame
    /\ inputs = 0
    /\ log_mark = 0
    /\ op_call = NoFrame
    /\ observing_notice = ""

\* the backend yields the next chunk: text[pos+1 .. j]; the last of MaxTokens
\* chunks is the rest of the text
StreamChunk ==
    /\ pc = "stream"
    /\ Len(frame.tokens) < MaxTokens
    /\ \E j \in frame.pos..Len(frame.text) :
         LET token == SubSeq(frame.text, frame.pos + 1, j)
         IN  /\ Len(frame.tokens) = MaxTokens - 1 => j = Len(frame.text)
             /\ frame' = [frame EXCEPT !.st = stream_chunk(frame.st, token),
                                       !.pos = j,
                                       !.tokens = Append(frame.tokens, token)]
    /\ UNCHANGED <<room_state, redis, image_redis, pc, cmd_result, last_call, inputs,
                   log_mark, op_call, observing_notice>>

\* the stream is exhausted: thoughts, response_text = extract_thinking(raw_text)
StreamEnd ==
    /\ pc = "stream"
    /\ frame.pos = Len(frame.text)
    /\ frame' = [frame EXCEPT !.result = extract_thinking(frame.st.raw_text)]
    /\ pc' = "streamed"
    /\ UNCHANGED <<room_state, redis, image_redis, cmd_result, last_call, inputs,
                   log_mark, op_call, observing_notice>>

NextStream ==
    \/ StreamChunk
    \/ StreamEnd

SpecStream == InitStream /\ [][NextStream]_vars

(***************************************************************************)
(* detect_command on lines typed one after another, under several alias     *)
(* tables.                                                                  *)
(***************************************************************************)
\* n copies of s, by halves
RECURSIVE Repeat(_, _)
Repeat(s, n) ==
    IF n = 0 THEN ""
    ELSE LET h == Repeat(s, n \div 2)
         IN  h \o h \o (IF n % 2 = 1 THEN s ELSE "")

\* the alias tables handed to detect_command: the full map of the session,
\* an empty one, one of custom personas
RouterTables ==
    {FULL_MENTION_MAP,
     [a \in {} |-> ""],
     [a \in {"@lena", "@zed"} |-> IF a = "@lena" THEN "7" ELSE "9"]}

\* the verbs that take a name, each as it may be typed
TypedVerbs ==
    {[verb |-> "add", typed |-> t] : t \in {"!add", "!ADD", "!Add"}}
    \cup {[verb |-> "kick", typed |-> t] : t \in {"!kick", "!KICK", "!kIcK"}}
    \cup {[verb |-> "focus", typed |-> t] : t \in {"!focus", "!FOCUS", "!Focus"}}

\* names as they may be typed, with the name in lower case
TypedNames ==
    {[name |-> "lena", typed |-> t] : t \in {"lena", "Lena", "LENA"}}
    \cup {[name |-> "zed", typed |-> t] : t \in {"zed", "ZeD"}}
    \cup {[name |-> "ravi_2", typed |-> t] : t \in {"Ravi_2"}}

\* lines that are none of the forms detect_command's docstring and comments
\* list: ordinary text, nothing, a misspelt verb, a verb without "!", a
\* verb with words it does not take
UnlistedLines ==
    {"", " ", "hello", "What do you think of the PS5?", "@lena",
     "!ad @lena", "add @lena", "! add @lena", "!addx @lena",
     "!reset now", "!help me", "!topicx", "!imagesx",
     "!add @", "!add @le-na", "!kick @marcus now", "!focus @lena x", "!kick a b"}

\* the quoted topic of an !observe line as typed ("" for none) and the seed
\* it stands for
ObserveTopics ==
    {[typed |-> "", seed |-> ""],
     [typed |-> "best console ever", seed |-> "best console ever"],
     [typed |-> "top 3 of 2020", seed |-> "top 3 of 2020"],
     [typed |-> " ps5 7 ", seed |-> "ps5 7"]}

\* the integer of an !observe line as typed ("" for none) and its value
ObserveRounds ==
    {[typed |-> "", value |-> 0], [typed |-> "0", value |-> 0],
     [typed |-> "1", value |-> 1], [typed |-> "5", value |-> 5],
     [typed |-> "007", value |-> 7]}

\* the lines typed: a verb with "@name" (form "at"), with a name without "@"
\* (form "name"), alone (form "bare"), !observe with an optional quoted topic
\* and an optional integer (form "observe"), lines of no listed form (form
\* "unlisted"), and the other lines (form "other")
RouterInputs ==
    {[form |-> "at", verb |-> v.verb, name |-> n.name,
      line |-> v.typed \o sep \o "@" \o n.typed] :
        v \in TypedVerbs, n \in TypedNames, sep \in {" ", "\t "}}
    \cup
    {[form |-> "name", verb |-> v.verb, name |-> n.name,
      line |-> v.typed \o sep \o n.typed] :
        v \in TypedVerbs, n \in TypedNames, sep \in {" ", "\t "}}
    \cup
    {[form |-> "bare", verb |-> v.verb, name |-> "", line |-> v.typed \o trail] :
        v \in TypedVerbs, trail \in {"", " "}}
    \cup
    {[form |-> "other", verb |-> "", name |-> "", line |-> l] :
        l \in InputLines \cup {"!observe 4", "!observe " \o Repeat("1", 4301)}}
    \cup
    {[form |-> "unlisted", verb |-> "", name |-> "", line |-> l] : l \in UnlistedLines}
    \cup
    {[form |-> "observe", verb |-> "observe", name |-> "", topic |-> t, rounds |-> r,
      line |-> v \o (IF t.typed # "" THEN " \"" \o t.typed \o "\"" ELSE "")
                 \o (IF r.typed # "" THEN " " \o r.typed ELSE "")] :
        v \in {"!observe", "!Observe"}, t \in ObserveTopics, r \in ObserveRounds}

InitRouter ==
    /\ \E input \in RouterInputs, map_ \in RouterTables :
         frame = [kind |-> "router", input |-> input, map_ |-> map_]
    /\ pc = "typed"
    /\ cmd_result = None
    /\ room_state \in {r \in RoomStates : r.active_personas = <<>> /\ r.focus_persona = ""}
    /\ redis = EmptyStore
    /\ image_redis = [analysis |-> {}, index |-> <<>>]
    /\ last_call = NoFrame
    /\ inputs = 0
    /\ log_mark = 0
    /\ op_call = NoFrame
    /\ observing_notice = ""

\* cmd = detect_command(user_input, mention_map)
Detect ==
    /\ pc = "typed"
    /\ cmd_result' = detect_command(frame.input.line, frame.map_)
    /\ pc' = "routed"
    /\ UNCHANGED <<room_state, redis, image_redis, frame, last_call, inputs, log_mark,
                   op_call, observing_notice>>

\* the next line is typed
TypeNext ==
    /\ pc = "routed"
    /\ cmd_result.cmd # "raise"
    /\ \E input \in RouterInputs : frame' = [frame EXCEPT !.input = input]
    /\ pc' = "typed"
    /\ cmd_result' = None
    /\ UNCHANGED <<room_state, redis, image_redis, last_call, inputs, log_mark,
                   op_call, observing_notice>>

NextRouter ==
    \/ Detect
    \/ TypeNext

SpecRouter == InitRouter /\ [][NextRouter]_vars

(***************************************************************************)
(* The exit branch of run() from the point where SIGINT is set to SIG_IGN   *)
(* (main.py 918), with generate_exit_brief and save_chat_summary            *)
(* (core/summary.py).                                                       *)
(***************************************************************************)
\* the most Ctrl+C presses during one exit
MaxInterrupts == 2

\* the logs a session may end with: none, one without a reply, one with one
\* reply, one with two
ExitLogs ==
    {<<>>,
     <<make_log_entry("user", "hello", "", "", "")>>,
     <<make_log_entry("user", "hello", "", "", ""),
       make_log_entry("persona", "ok", "1", "Lena", "hm")>>,
     <<make_log_entry("user", "hello", "", "", ""),
       make_log_entry("persona", "ok", "1", "Lena", "hm"),
       make_log_entry("persona", "fine", "2", "Marcus", "")>>}

\* variant: SIGINT raises KeyboardInterrupt whatever the handler is
on_sigint_Raises(handler, at) == "crashed"

\* where run() is after a SIGINT that arrives at `at`: nowhere else when the
\* handler is SIG_IGN, out of run() with KeyboardInterrupt otherwise
on_sigint(handler, at) == IF handler = "SIG_IGN" THEN at ELSE "crashed"

\* generate_exit_brief: "" for fewer than two persona entries or when the
\* backend call fails (llm = "error"), else the stripped text
generate_exit_brief(full_log, llm) ==
    IF Len(SelectSeq(full_log, LAMBDA e : e.type = "persona")) < 2 THEN ""
    ELSE IF llm = "error" THEN ""
    ELSE "insights"

\* generate_summary: the text, or the placeholder when the backend call fails
generate_summary(full_log, llm) ==
    IF full_log = <<>> THEN "No conversation to summarize."
    ELSE IF llm = "error"
    THEN "[Summary generation failed: error]\n\nRaw transcript available in chat log below."
    ELSE "summary"

InitExit ==
    /\ room_state \in {[r EXCEPT !.full_log = log] :
                         r \in {q \in RoomStates : q.active_personas = <<>>
                                                    /\ q.focus_persona = ""},
                         log \in ExitLogs}
    /\ pc = "exit_closing"
    /\ frame = [kind |-> "exit", sigint |-> "SIG_IGN", interrupts |-> 0, brief |-> "",
                summary |-> "", file |-> "absent", notice |-> ""]
    /\ cmd_result = [cmd |-> "exit"]
    /\ redis = EmptyStore
    /\ image_redis = [analysis |-> {}, index |-> <<>>]
    /\ last_call = NoFrame
    /\ inputs = 0
    /\ log_mark = 0
    /\ op_call = NoFrame
    /\ observing_notice = ""

\* the moderator presses Ctrl+C somewhere on the exit path
ExitSigInt ==
    /\ pc \in {"exit_closing", "exit_brief", "exit_summary", "exit_open", "exit_write",
               "exit_goodbye"}
    /\ frame.interrupts < MaxInterrupts
    /\ pc' = on_sigint(frame.sigint, pc)
    /\ frame' = [frame EXCEPT !.interrupts = frame.interrupts + 1]
    /\ UNCHANGED <<room_state, redis, image_redis, cmd_result, last_call, inputs,
                   log_mark, op_call, observing_notice>>

\* "[Closing room...]", if room_state["full_log"]: ... else "[No conversation to save.]"
ExitClosing ==
    /\ pc = "exit_closing"
    /\ IF room_state.full_log # <<>>
       THEN pc' = "exit_brief" /\ UNCHANGED frame
       ELSE /\ pc' = "exit_goodbye"
            /\ frame' = [frame EXCEPT !.notice = "[No conversation to save.]"]
    /\ UNCHANGED <<room_state, redis, image_redis, cmd_result, last_call, inputs,
                   log_mark, op_call, observing_notice>>

\* brief = generate_exit_brief(...), printed when not empty
ExitBrief ==
    /\ pc = "exit_brief"
    /\ \E llm \in {"ok", "error"} :
         frame' = [frame EXCEPT !.brief = generate_exit_brief(room_state.full_log, llm)]
    /\ pc' = "exit_summary"
    /\ UNCHANGED <<room_state, redis, image_redis, cmd_result, last_call, inputs,
                   log_mark, op_call, observing_notice>>

\* save_chat_summary up to build_markdown; os.makedirs may raise OSError,
\* which run() catches
ExitSummary ==
    /\ pc = "exit_summary"
    /\ \/ \E llm \in {"ok", "error"} :
            /\ frame' = [frame EXCEPT !.summary = generate_summary(room_state.full_log, llm)]
            /\ pc' = "exit_open"
       \/ /\ frame' = [frame EXCEPT !.notice = "[Summary could not be saved: OSError]"]
          /\ pc' = "exit_goodbye"
    /\ UNCHANGED <<room_state, redis, image_redis, cmd_result, last_call, inputs,
                   log_mark, op_call, observing_notice>>

\* open(filepath, "w"): the file is there and empty, or OSError
ExitOpen ==
    /\ pc = "exit_open"
    /\ \/ /\ frame' = [frame EXCEPT !.file = "empty"]
          /\ pc' = "exit_write"
       \/ /\ frame' = [frame EXCEPT !.notice = "[Summary could not be saved: OSError]"]
          /\ pc' = "exit_goodbye"
    /\ UNCHANGED <<room_state, redis, image_redis, cmd_result, last_call, inputs,
                   log_mark, op_call, observing_notice>>

\* f.write(content) and the close of the file: the whole text, or OSError
\* with part of it
ExitWrite ==
    /\ pc = "exit_write"
    /\ \/ frame' = [frame EXCEPT !.file = "complete",
                                 !.notice = "[Summary saved to: filepath]"]
       \/ frame' = [frame EXCEPT !.file = "partial",
                                 !.notice = "[Summary could not be saved: OSError]"]
    /\ pc' = "exit_goodbye"
    /\ UNCHANGED <<room_state, redis, image_redis, cmd_result, last_call, inputs,
                   log_mark, op_call, observing_notice>>

\* "[Room closed. Goodbye.]", sys.exit(0)
ExitGoodbye ==
    /\ pc = "exit_goodbye"
    /\ pc' = "exited"
    /\ UNCHANGED <<room_state, redis, image_redis, frame, cmd_result, last_call, inputs,
                   log_mark, op_call, observing_notice>>

\* the statements of the exit branch, one after another
ExitProgress ==
    \/ ExitClosing
    \/ ExitBrief
    \/ ExitSummary
    \/ ExitOpen
    \/ ExitWrite
    \/ ExitGoodbye

NextExit ==
    \/ ExitProgress
    \/ ExitSigInt

\* the interpreter runs the branch on: every call of it returns or raises
SpecExit == InitExit /\ [][NextExit]_vars /\ WF_vars(ExitProgress)

(***************************************************************************)
(* The operations of core/room.py on Python objects: a state is a dict      *)
(* object whose "active_personas" and "full_log" refer to list objects;     *)
(* `list + [x]`, a list comprehension and `{**state, ...}` make new         *)
(* objects, and the new dict shares the lists it does not replace.          *)
(***************************************************************************)
\* the most dict objects made in one run
MaxDicts == 4

\* variant: add and append_log use list.append on the list of the state given
room_op_on_heap_InPlace(h, op, s, arg) ==
    LET d == h.dicts[s]
        active == h.lists[d.active_personas]
        new_list == Len(h.lists) + 1
        new_dict == Len(h.dicts) + 1
    IN  CASE op = "add" ->
               IF ~InList(arg, active)
               THEN [lists |-> [h.lists EXCEPT ![d.active_personas] = active \o <<arg>>],
                     dicts |-> h.dicts, ret |-> s]
               ELSE [lists |-> h.lists, dicts |-> h.dicts, ret |-> s]
          [] op = "kick" ->
               [lists |-> Append(h.lists, SelectSeq(active, LAMBDA k : k # arg)),
                dicts |-> Append(h.dicts,
                                 [d EXCEPT !.active_personas = new_list,
                                           !.focus_persona =
                                               IF d.focus_persona = arg THEN ""
                                               ELSE d.focus_persona]),
                ret |-> new_dict]
          [] op = "set_focus" ->
               [lists |-> h.lists,
                dicts |-> Append(h.dicts, [d EXCEPT !.focus_persona = arg]),
                ret |-> new_dict]
          [] op = "clear_focus" ->
               [lists |-> h.lists,
                dicts |-> Append(h.dicts, [d EXCEPT !.focus_persona = ""]),
                ret |-> new_dict]
          [] op = "append_log" ->
               [lists |-> [h.lists EXCEPT ![d.full_log] = h.lists[d.full_log] \o <<arg>>],
                dicts |-> Append(h.dicts, d),
                ret |-> new_dict]

\* the heap after op(state s, arg) and the dict object it returns; h.lists and
\* h.dicts are the list and dict objects by address
room_op_on_heap(h, op, s, arg) ==
    LET d == h.dicts[s]
        active == h.lists[d.active_personas]
        new_list == Len(h.lists) + 1
        new_dict == Len(h.dicts) + 1
    IN  CASE op = "add" ->
               IF ~InList(arg, active)
               THEN [lists |-> Append(h.lists, active \o <<arg>>),
                     dicts |-> Append(h.dicts, [d EXCEPT !.active_personas = new_list]),
                     ret |-> new_dict]
               ELSE [lists |-> h.lists, dicts |-> h.dicts, ret |-> s]
          [] op = "kick" ->
               [lists |-> Append(h.lists, SelectSeq(active, LAMBDA k : k # arg)),
                dicts |-> Append(h.dicts,
                                 [d EXCEPT !.active_personas = new_list,
                                           !.focus_persona =
                                               IF d.focus_persona = arg THEN ""
                                               ELSE d.focus_persona]),
                ret |-> new_dict]
          [] op = "set_focus" ->
               [lists |-> h.lists,
                dicts |-> Append(h.dicts, [d EXCEPT !.focus_persona = arg]),
                ret |-> new_dict]
          [] op = "clear_focus" ->
               [lists |-> h.lists,
                dicts |-> Append(h.dicts, [d EXCEPT !.focus_persona = ""]),
                ret |-> new_dict]
          [] op = "append_log" ->
               [lists |-> Append(h.lists, h.lists[d.full_log] \o <<arg>>),
                dicts |-> Append(h.dicts, [d EXCEPT !.full_log = new_list]),
                ret |-> new_dict]

\* _base_state() of the tests: one dict, its two lists
InitHeap ==
    /\ frame = [kind |-> "heap",
                lists |-> << <<"1">>, <<>> >>,
                dicts |-> <<[active_personas |-> 1, focus_persona |-> "", full_log |-> 2]>>,
                call |-> [op |-> "none", s |-> 1, ret |-> 1, key |-> "",
                          entry |-> make_log_entry("user", "hello", "", "", "")]]
    /\ pc = "heap"
    /\ room_state \in {r \in RoomStates : r.active_personas = <<>> /\ r.focus_persona = ""}
    /\ redis = EmptyStore
    /\ image_redis = [analysis |-> {}, index |-> <<>>]
    /\ cmd_result = None
    /\ last_call = NoFrame
    /\ inputs = 0
    /\ log_mark = 0
    /\ op_call = NoFrame
    /\ observing_notice = ""

\* a caller applies one of the five operations to a state object it holds
HeapCall ==
    /\ pc = "heap"
    /\ Len(frame.dicts) < MaxDicts
    /\ \E s \in 1..Len(frame.dicts) :
         \/ \E op \in {"add", "kick", "set_focus"}, k \in Keys :
              LET r == room_op_on_heap(frame, op, s, k)
              IN  frame' = [frame EXCEPT !.lists = r.lists, !.dicts = r.dicts,
                                         !.call = [@ EXCEPT !.op = op, !.s = s,
                                                            !.ret = r.ret, !.key = k]]
         \/ LET r == room_op_on_heap(frame, "clear_focus", s, "")
            IN  frame' = [frame EXCEPT !.lists = r.lists, !.dicts = r.dicts,
                                       !.call = [@ EXCEPT !.op = "clear_focus", !.s = s,
                                                          !.ret = r.ret, !.key = ""]]
         \/ \E e \in SampleEntries :
              LET r == room_op_on_heap(frame, "append_log", s, e)
              IN  frame' = [frame EXCEPT !.lists = r.lists, !.dicts = r.dicts,
                                         !.call = [@ EXCEPT !.op = "append_log", !.s = s,
                                                            !.ret = r.ret, !.key = "",
                                                            !.entry = e]]
    /\ UNCHANGED <<room_state, redis, image_redis, pc, cmd_result, last_call, inputs,
                   log_mark, op_call, observing_notice>>

SpecHeap == InitHeap /\ [][HeapCall]_vars

(***************************************************************************)
(* Properties.                                                             *)
(***************************************************************************)
IsPrefix(a, b) == Len(a) <= Len(b) /\ SubSeq(b, 1, Len(a)) = a

Count(x, list) == Cardinality({i \in 1..Len(list) : list[i] = x})

NoDuplicates(list) ==
    \A i, j \in 1..Len(list) : i # j => list[i] # list[j]

\* C1: in every state a session reaches, focus_persona is "" or one of the
\* keys of active_personas.
C1_FocusIsActive ==
    \/ room_state.focus_persona = ""
    \/ InList(room_state.focus_persona, room_state.active_personas)

\* a persona was kicked while another one held the focus
C1_Witness ==
    /\ cmd_result.cmd = "kick"
    /\ room_state.focus_persona # ""
    /\ ~InList(cmd_result.persona_key, room_state.active_personas)
    /\ Len(room_state.full_log) > 0

\* C2: active_personas never holds a key twice, from the selection made at
\* the start of run() onwards.
C2_ActiveHasNoDuplicates == NoDuplicates(room_state.active_personas)

\* C3: every step leaves the log it found as a prefix of the log it leaves,
\* and one append_log call makes the log longer by exactly one entry, the
\* new one at the end.
C3_LogAppendOnly ==
    [][/\ IsPrefix(room_state.full_log, room_state'.full_log)
       /\ \A entry \in SampleEntries :
            LET after == append_log(room_state', entry).full_log
            IN  /\ Len(after) = Len(room_state'.full_log) + 1
                /\ SubSeq(after, 1, Len(after) - 1) = room_state'.full_log
                /\ after[Len(after)] = entry]_vars

\* a moderator entry followed by the answers of two personas
C3_Witness ==
    /\ Len(room_state.full_log) >= 3
    /\ room_state.full_log[1].type = "user"
    /\ room_state.full_log[Len(room_state.full_log)].type = "persona"

\* C4: add_persona_to_room(S, k) with k not in S.active_personas gives the
\* list S.active_personas ++ [k], which holds k once; adding k again, or
\* adding any key that is present, gives back the same list.
C4_AddAppendsOnce ==
    (op_call # NoFrame /\ op_call.op = "add") =>
        LET S == op_call.before
            k == op_call.key
        IN  /\ ~InList(k, S.active_personas) =>
                /\ room_state.active_personas = S.active_personas \o <<k>>
                /\ Count(k, room_state.active_personas) = 1
            /\ add_persona_to_room(room_state, k).active_personas
                 = room_state.active_personas
            /\ \A k2 \in Keys :
                 InList(k2, room_state.active_personas) =>
                     add_persona_to_room(room_state, k2).active_personas
                       = room_state.active_personas

\* a key was added to a room that held another key and not this one
C4_Witness ==
    /\ op_call # NoFrame /\ op_call.op = "add"
    /\ ~InList(op_call.key, op_call.before.active_personas)
    /\ Len(op_call.before.active_personas) >= 1
    /\ Len(room_state.active_personas) = Len(op_call.before.active_personas) + 1

\* C5: kick_persona_from_room(S, k) sets focus_persona to "" when
\* S.focus_persona = k, and leaves focus_persona = k2 as it is when
\* S.focus_persona = k2 and k2 is not k.
C5_KickFocus ==
    (op_call # NoFrame /\ op_call.op = "kick") =>
        LET S == op_call.before
            k == op_call.key
        IN  /\ S.focus_persona = k => room_state.focus_persona = ""
            /\ S.focus_persona # k => room_state.focus_persona = S.focus_persona

\* the focused persona was kicked out of a room it was in
C5_Witness ==
    /\ op_call # NoFrame /\ op_call.op = "kick"
    /\ op_call.before.focus_persona = op_call.key
    /\ InList(op_call.key, op_call.before.active_personas)
    /\ room_state.focus_persona = ""

\* the names no alias of the table matches
UnknownNames == {"zed"}

\* what detect_command makes of "!verb @name" for the unknown names
UnknownAliasVerdicts ==
    {<<verb, name, detect_command("!" \o verb \o " @" \o name, FULL_MENTION_MAP)>> :
        verb \in {"add", "kick", "focus"}, name \in UnknownNames}

\* C6: !add, !kick and !focus with an @alias the table does not hold are
\* classified add_unknown, kick_unknown and focus_unknown, and the step that
\* handles such a command changes nothing of the room: active set, focus,
\* log, personas, stores, and the loop is back at the prompt.
C6_UnknownAliasChangesNothing ==
    [][/\ \A v \in UnknownAliasVerdicts :
            v[3] = [cmd |-> v[1] \o "_unknown", persona_name |-> v[2]]
       /\ (/\ inputs' = inputs + 1
           /\ \E v \in UnknownAliasVerdicts : cmd_result' = v[3])
            => /\ room_state' = room_state
               /\ redis' = redis
               /\ image_redis' = image_redis
               /\ pc' = "prompt"]_vars

\* "!kick @zed" was handled in a room that already had a log
C6_Witness ==
    /\ cmd_result.cmd = "kick_unknown"
    /\ cmd_result.persona_name \in UnknownNames
    /\ inputs = 2
    /\ Len(room_state.full_log) > 0
    /\ pc = "prompt"

\* C7: !observe with fewer than 2 entries in active_personas is turned down:
\* no generation call is made and the room state, log included, stays as it
\* was.
C7_ObserveNeedsTwo ==
    [][(/\ inputs' = inputs + 1
        /\ log_mark' = Len(room_state.full_log)
        /\ cmd_result'.cmd = "observe"
        /\ Len(room_state.active_personas) < 2)
            => /\ room_state' = room_state
               /\ pc' = "prompt"
               /\ last_call' = last_call
               /\ redis' = redis]_vars

\* "!observe" was handled in a room of one persona that had already answered
C7_Witness ==
    /\ cmd_result.cmd = "observe"
    /\ inputs = 2
    /\ Len(room_state.active_personas) = 1
    /\ pc = "prompt"
    /\ Len(room_state.full_log) = 2
    /\ log_mark = 2

\* the step that ends the last synthesis turn of an observe run
ObserveCompletes ==
    /\ pc = "synthesis"
    /\ frame.i = Len(frame.active)
    /\ pc' = "prompt"
    /\ room_state' # room_state

\* C8 (as the code has it): an observe run of N rounds over P >= 2 entries of
\* active_personas that is not interrupted logs one system entry
\* "Observing ...", then N*P dialogue entries and P synthesis entries, each of
\* the persona whose turn it is in active order: N*P + P + 1 entries on top
\* of the log the command found.
C8_ObserveCompleteGrowth ==
    [][ObserveCompletes =>
        LET N == frame.rounds
            P == Len(frame.active)
            log == room_state'.full_log
        IN  /\ P >= 2
            /\ frame.round_count = N
            /\ Len(log) = log_mark + N * P + P + 1
            /\ log[log_mark + 1].type = "system"
            /\ \A j \in 1..(N * P + P) :
                 /\ log[log_mark + 1 + j].type = "persona"
                 /\ log[log_mark + 1 + j].persona_key = frame.active[((j - 1) % P) + 1]]_vars

\* C8 as stated: the log grows by exactly N*P + P entries.
C8_AsStated ==
    [][ObserveCompletes =>
        Len(room_state'.full_log)
          = log_mark + frame.rounds * Len(frame.active) + Len(frame.active)]_vars

\* an observe run of 2 rounds over 2 personas has completed
C8_Witness ==
    /\ pc = "prompt"
    /\ cmd_result.cmd = "observe"
    /\ Get(cmd_result, "observe_rounds", 0) = 2
    /\ Len(room_state.active_personas) = 2
    /\ Len(room_state.full_log) = log_mark + 7
    /\ room_state.full_log[log_mark + 7].type = "persona"

\* the step in which a dialogue turn of an observe run is interrupted: the
\* turn logs nothing and the process goes on
ObserveIsInterrupted ==
    /\ pc = "observe"
    /\ room_state' = room_state
    /\ pc' # "crashed"

\* the dialogue turns completed so far
DialogueTurnsDone == frame.round_count * Len(frame.active) + frame.i - 1

\* C9 (as the code has it): when an observe run is interrupted after k
\* dialogue turns, the loop ends and the prompt is next, no synthesis turn is
\* generated, the k turns stay in the log, and the log holds k + 1 entries
\* more than the command found: the system entry "Observing ..." and the k
\* turns.
C9_ObserveInterruptGrowth ==
    [][ObserveIsInterrupted =>
        LET k == DialogueTurnsDone
            log == room_state'.full_log
        IN  /\ pc' = "prompt"
            /\ frame' = NoFrame
            /\ last_call'.input_text = frame.current_prompt
            /\ Len(log) = log_mark + 1 + k
            /\ log[log_mark + 1].type = "system"
            /\ \A j \in 1..k : log[log_mark + 1 + j].type = "persona"]_vars

\* C9 as stated: the log has grown by exactly k entries.
C9_AsStated ==
    [][ObserveIsInterrupted =>
        Len(room_state'.full_log) = log_mark + DialogueTurnsDone]_vars

\* an observe run was interrupted after its first dialogue turn
C9_Witness ==
    /\ pc = "prompt"
    /\ cmd_result.cmd = "observe"
    /\ Len(room_state.active_personas) >= 2
    /\ last_call # NoFrame /\ last_call.is_observe
    /\ Len(room_state.full_log) = log_mark + 2
    /\ room_state.full_log[log_mark + 2].type = "persona"

\* the step that ends the last turn of a message sent with no focus
MessageCompletes ==
    /\ pc = "turn"
    /\ frame.focus = ""
    /\ frame.i = Len(frame.responders)
    /\ pc' = "prompt"
    /\ room_state' # room_state

Outcome(call) == IF "outcome" \in DOMAIN call THEN call.outcome ELSE "none"

\* a step that ends a generation call
TurnPcs == {"turn", "observe", "synthesis"}

\* the persona whose generation call is running
CallKey == IF pc = "turn" THEN frame.responders[frame.i] ELSE frame.active[frame.i]

\* what C11 says of one step
C11_Step ==
    (pc = "turn" /\ frame.focus # "" /\ InList(frame.focus, frame.active)) =>
        LET f == frame.focus
            log == room_state.full_log
            log2 == room_state'.full_log
        IN  /\ frame.responders = <<f>>
            /\ \A i \in 1..Len(frame.active) :
                 LET k == frame.active[i]
                     rk == room_state.personas[k].redis_key
                 IN  k # f =>
                       /\ room_state'.personas[k].history = room_state.personas[k].history
                       /\ load_history(redis', rk) = load_history(redis, rk)
            /\ Outcome(last_call') = "returned" =>
                 /\ pc' = "prompt"
                 /\ Len(log2) = Len(log) + 1
                 /\ log[Len(log)].type = "user"
                 /\ log2[Len(log2)].type = "persona"
                 /\ log2[Len(log2)].persona_key = f

\* C11: while the focus is an active key f, the responders of a moderator
\* message are f alone; when f's turn ends, one persona entry of f follows
\* the moderator entry and the prompt is next; the in-memory history and the
\* stored history of every other active persona are as they were.
C11_OnlyFocusedResponds == [][C11_Step]_vars

\* "hello" under the focus on one of two personas was answered by that one
C11_Witness ==
    /\ pc = "prompt"
    /\ cmd_result = None
    /\ room_state.focus_persona # ""
    /\ NoDuplicates(room_state.active_personas)
    /\ Len(room_state.active_personas) >= 2
    /\ Outcome(last_call) = "returned"
    /\ Len(room_state.full_log) = log_mark + 2
    /\ room_state.full_log[log_mark + 2].persona_key = room_state.focus_persona

\* the step that ends the responder loop of a message sent under a focus that
\* leaves other active personas out
FocusedMessageEnds ==
    /\ pc = "turn"
    /\ frame.focus # ""
    /\ \E i \in 1..Len(frame.active) : frame.active[i] # frame.focus
    /\ pc' = "prompt"

\* what C12 says of one step
C12_Step ==
    FocusedMessageEnds =>
        \E i \in (log_mark + 1)..Len(room_state'.full_log) :
            /\ room_state'.full_log[i].type = "system"
            /\ Find(room_state'.full_log[i].content, "observing", 1) # 0

\* C12: while the focus is set, for each moderator message the log records
\* the active personas that are not focused as observing.
C12_LogRecordsObservers == [][C12_Step]_vars

\* what C13 says of one step
C13_Step ==
    pc \in TurnPcs =>
        LET ctx == room_state.personas[CallKey]
            rk  == ctx.redis_key
            log2 == room_state'.full_log
        IN  /\ Outcome(last_call') = "failed" =>
                /\ redis' = redis
                /\ room_state' = room_state
                /\ pc' = "crashed"
            /\ Outcome(last_call') = "returned" =>
                LET exchange == <<[role |-> "user", content |-> last_call'.input_text],
                                  [role |-> "assistant",
                                   content |-> log2[Len(log2)].content]>>
                IN  /\ load_history(redis', rk) = load_history(redis, rk) \o exchange
                    /\ room_state'.personas[CallKey].history = ctx.history \o exchange
                    /\ \A k \in (DOMAIN redis \cup DOMAIN redis') \ {rk} :
                         load_history(redis', k) = load_history(redis, k)

\* C13: a generation call whose backend call fails leaves the history store
\* and the personas' in-memory histories as they were and ends run() with the
\* error; a call that returns has appended its exchange to the stored history
\* of its persona once, and to nothing else.
C13_PersistOncePerCall == [][C13_Step]_vars

\* the backend failed during the second turn of a message, after the first
\* turn had been saved
C13_Witness ==
    /\ pc = "crashed"
    /\ Outcome(last_call) = "failed"
    /\ ~last_call.is_observe
    /\ Len(room_state.full_log) = log_mark + 2
    /\ room_state.full_log[log_mark + 2].type = "persona"

\* what C14 says of one step
C14_Step ==
    (pc = "turn" /\ Outcome(last_call') = "failed") =>
        /\ pc' = "prompt"
        /\ room_state'.full_log = room_state.full_log

\* C14: when the generation call of a turn of a normal message fails with an
\* error, the turn logs no reply and run() is back at the prompt for the
\* next line.
C14_FailedTurnIsSkipped == [][C14_Step]_vars

\* the replies extract_thinking gives for the texts the backend returns whole
CompleteReplies == {extract_thinking(raw)[2] : raw \in RawTexts}

\* every stored history is a list of exchanges: user, assistant, user, ...,
\* the assistant entries being replies to whole texts (or the one stored
\* before the session)
WellFormedStore(store) ==
    \A k \in DOMAIN store :
        /\ Len(store[k]) % 2 = 0
        /\ \A i \in 1..Len(store[k]) :
             /\ store[k][i].role = (IF i % 2 = 1 THEN "user" ELSE "assistant")
             /\ i % 2 = 0 =>
                  store[k][i].content \in CompleteReplies
                      \cup {EarlierExchange[2].content}

\* what C15 says of one step
C15_Step ==
    pc \in TurnPcs =>
        /\ Outcome(last_call') = "interrupted" =>
             /\ redis' = redis
             /\ room_state' = room_state
             /\ pc' = "prompt"
        /\ WellFormedStore(redis')

RECURSIVE Concat(_, _)
Concat(list, i) == IF i > Len(list) THEN "" ELSE list[i] \o Concat(list, i + 1)

\* p is the index of the first "</think>" of s
FirstClose(s, p) ==
    /\ p + 7 <= Len(s)
    /\ SubSeq(s, p, p + 7) = "</think>"
    /\ \A q \in 1..(p - 1) : SubSeq(s, q, q + 7) # "</think>"

\* C16: at every point of a stream, however the text is cut into chunks,
\* what on_token has been given so far is, in order, exactly the text that
\* follows the first "</think>" of the text received so far, and nothing as
\* long as no "</think>" has been received in full.
C16_CallbackGetsTextAfterMarker ==
    (pc \in {"stream", "streamed"} /\ frame.kind = "stream") =>
        LET raw == frame.st.raw_text
            sent == Concat(frame.st.calls, 1)
        IN  /\ raw = SubSeq(frame.text, 1, frame.pos)
            /\ \A p \in 1..Len(raw) : FirstClose(raw, p) => sent = From(raw, p + 8)
            /\ (\A p \in 1..Len(raw) : ~FirstClose(raw, p)) => sent = ""

\* the marker came split over two chunks, and text after it in a third
C16_Witness ==
    /\ pc = "streamed"
    /\ frame.text = " p<think> a\nb </think> c "
    /\ frame.tokens = <<" p<think> a\nb </th", "ink> ", "c ">>
    /\ frame.st.calls = <<" ", "c ">>

\* r is s without its leading and trailing white space
IsTrimOf(r, s) ==
    \E i \in 0..Len(s) : \E j \in i..Len(s) :
        /\ r = SubSeq(s, i + 1, j)
        /\ \A q \in (1..i) \cup ((j + 1)..Len(s)) : IsSpace(Char(s, q))
        /\ r # "" => ~IsSpace(Char(r, 1)) /\ ~IsSpace(Char(r, Len(r)))

\* C17: for a text with one block <think>B</think>, extract_thinking gives B
\* trimmed and the text without the block trimmed; for a text with no block
\* it gives "" and the text trimmed; an empty B gives "" and the remainder.
C17_ExtractThinking ==
    (pc = "streamed" /\ frame.kind = "stream") =>
        LET parts == frame.parts
            thoughts == frame.result[1]
            clean == frame.result[2]
        IN  /\ parts.block =>
                /\ IsTrimOf(thoughts, parts.inner)
                /\ IsTrimOf(clean, parts.pre \o parts.post)
            /\ ~parts.block =>
                /\ thoughts = ""
                /\ IsTrimOf(clean, frame.text)
            /\ (parts.block /\ parts.inner = "") => thoughts = ""

\* a block with white space around its inside and text on both sides
C17_Witness ==
    /\ pc = "streamed"
    /\ frame.parts = [block |-> TRUE, pre |-> " p", inner |-> " a\nb ", post |-> " c "]
    /\ frame.result = <<"a\nb", "p c">>

\* the command variants of detect_command, "none" for None
CommandVariants ==
    {"exit", "did_you_mean", "reset", "help", "observe", "unfocus", "topic_clear",
     "topic_set", "add", "add_unknown", "kick", "kick_unknown", "focus",
     "focus_unknown", "usage_hint", "image_clear", "image_load", "image_list", "none"}

\* C18: detect_command returns for every line and alias table: the result is
\* one of the command variants or None, never an exception.
C18_DetectCommandTotal ==
    (pc = "routed" /\ frame.kind = "router") => cmd_result.cmd \in CommandVariants

\* a line "!verb @name" was routed
AtNameRouted == pc = "routed" /\ frame.kind = "router" /\ frame.input.form = "at"

\* C19: "!V @name", in any casing of the verb and of the name, gives V with
\* the key the table has for "@" + the name in lower case, and V_unknown with
\* the name in lower case when the table has no such alias.
C19_NamedCommandsIgnoreCase ==
    AtNameRouted =>
        LET input == frame.input
            alias == "@" \o input.name
        IN  IF alias \in DOMAIN frame.map_
            THEN cmd_result = [cmd |-> input.verb, persona_key |-> frame.map_[alias],
                               persona_name |-> input.name]
            ELSE cmd_result = [cmd |-> input.verb \o "_unknown",
                               persona_name |-> input.name]

\* "!FOCUS @Lena" (tab and space between) was resolved through the table of
\* custom personas
C19_Witness ==
    /\ AtNameRouted
    /\ frame.input.line = "!FOCUS\t @Lena"
    /\ cmd_result = [cmd |-> "focus", persona_key |-> "7", persona_name |-> "lena"]

C21_AddWithoutAtIsNone ==
    (pc = "routed" /\ frame.kind = "router" /\ frame.input.line = "!add lena") =>
        cmd_result = None

\* a line of no listed form was routed
UnlistedRouted == pc = "routed" /\ frame.kind = "router" /\ frame.input.form = "unlisted"

\* "!focus name" without the "@" was routed
FocusNameRouted ==
    /\ pc = "routed" /\ frame.kind = "router"
    /\ frame.input.form = "name" /\ frame.input.verb = "focus"

\* C22 as stated: a line of no listed form is None, and so is "!focus name"
\* without the "@".
C22_AsStated == (UnlistedRouted \/ FocusNameRouted) => cmd_result = None

\* C22: a line of no listed form (ordinary text, nothing, a misspelt verb, a
\* verb without "!", a verb followed by words it does not take) is None;
\* "!focus name" without the "@" is not: it gives did_you_mean with the
\* suggestion "!focus @name".
C22_UnlistedIsPlainText ==
    /\ UnlistedRouted => cmd_result = None
    /\ FocusNameRouted =>
         cmd_result = [cmd |-> "did_you_mean",
                       suggestion |-> "!focus @" \o frame.input.name]

\* "!reset now" was read as plain text
C22_Witness ==
    /\ UnlistedRouted
    /\ frame.input.line = "!reset now"
    /\ cmd_result = None

\* an !observe line with an optional quoted topic and an optional integer was
\* routed
ObserveRouted == pc = "routed" /\ frame.kind = "router" /\ frame.input.form = "observe"

\* C23: "!observe" with an optional quoted topic and an optional integer gives
\* observe; observe_topic is there exactly when a topic was typed and is the
\* quoted text (without white space around it); observe_rounds is there
\* exactly when an integer was typed and is that integer, or 1 if it is
\* less; digits inside the quotes are not the round count.
C23_ObserveArguments ==
    ObserveRouted =>
        LET topic == frame.input.topic
            rounds == frame.input.rounds
        IN  /\ cmd_result.cmd = "observe"
            /\ ("observe_topic" \in DOMAIN cmd_result) <=> (topic.typed # "")
            /\ topic.typed # "" => cmd_result.observe_topic = topic.seed
            /\ ("observe_rounds" \in DOMAIN cmd_result) <=> (rounds.typed # "")
            /\ rounds.typed # "" =>
                 cmd_result.observe_rounds = (IF rounds.value < 1 THEN 1 ELSE rounds.value)

\* a topic with digits in it, followed by 007
C23_Witness ==
    /\ ObserveRouted
    /\ frame.input.line = "!observe \"top 3 of 2020\" 007"
    /\ cmd_result = [cmd |-> "observe", observe_topic |-> "top 3 of 2020",
                     observe_rounds |-> 7]

\* the topics a room can have: the default, what the topic prompt took, what
\* "!topic <text>" sets
RoomTopics ==
    {DEFAULT_TOPIC} \cup (TopicLines \ {""})
        \cup {p[2].topic : p \in {q \in ParsedLines : q[2].cmd = "topic_set"}}

\* those of them that name the PlayStation 5
PS5Topics ==
    {t \in RoomTopics :
        Lower(Strip(t)) \in {"playstation 5", "ps5", "playstation5", "playstation"}}

\* the briefing of a room state is one that fetch_topic_context gives for its
\* topic: the static one for the PlayStation 5 and its aliases, else a text
\* headed by the topic
TopicBriefed(state) ==
    /\ state.topic \in RoomTopics
    /\ IF state.topic \in PS5Topics
       THEN state.topic_context = "PS5_CONTEXT"
       ELSE StartsWith(state.topic_context, "TOPIC: " \o state.topic \o "\n\n")

\* what C24 says of one step
C24_Step ==
    /\ TopicBriefed(room_state)
    /\ (room_state'.topic # room_state.topic
          \/ room_state'.topic_context # room_state.topic_context) =>
         /\ TopicBriefed(room_state')
         /\ pc = "prompt"
         /\ cmd_result'.cmd \in {"topic_set", "topic_clear"}
         /\ room_state'.topic = (IF cmd_result'.cmd = "topic_set"
                                 THEN cmd_result'.topic ELSE DEFAULT_TOPIC)

\* C24: in every room state the briefing is one fetched for the current
\* topic; only "!topic <text>" and bare "!topic" change topic or
\* topic_context, and they write both in the same step, the briefing being
\* the one of the new topic.
C24_TopicAndBriefingTogether == [][C24_Step]_vars

\* the topic was set to tea and then cleared again
C24_Witness ==
    /\ pc = "prompt"
    /\ cmd_result.cmd = "topic_clear"
    /\ room_state.topic = DEFAULT_TOPIC
    /\ room_state.topic_context = "PS5_CONTEXT"
    /\ \E i \in 1..Len(room_state.full_log) :
         room_state.full_log[i].content = "Topic changed to: tea"

\* what C25 says of one step of the exit path
C25_Step ==
    /\ pc' # "crashed"
    /\ frame'.interrupts # frame.interrupts =>
         /\ pc' = pc
         /\ frame' = [frame EXCEPT !.interrupts = frame.interrupts + 1]
    /\ (pc' = "exit_goodbye" /\ frame'.file \in {"empty", "partial"}) =>
         frame'.notice = "[Summary could not be saved: OSError]"

ResetStep == pc = "prompt" /\ inputs' = inputs + 1 /\ cmd_result'.cmd = "reset"

\* what C26 says of one step
C26_Step ==
    \A k \in DOMAIN redis \cup DOMAIN redis' :
        LET h == load_history(redis, k)
            h2 == load_history(redis', k)
        IN  /\ ~ResetStep => IsPrefix(h, h2)
            /\ ResetStep => h2 = h \/ h2 = <<>>
            /\ (h2 # h /\ ~ResetStep) =>
                 /\ pc \in TurnPcs
                 /\ k = room_state.personas[CallKey].redis_key
                 /\ Outcome(last_call') \in {"returned", "interrupted_after_save"}
                 /\ Len(h2) = Len(h) + 2
                 /\ h2[Len(h) + 1] = [role |-> "user", content |-> last_call'.input_text]
                 /\ h2[Len(h) + 2].role = "assistant"
                 /\ Outcome(last_call') = "returned" =>
                      h2[Len(h) + 2].content =
                          room_state'.full_log[Len(room_state'.full_log)].content

Deref(h, s) ==
    [active_personas |-> h.lists[h.dicts[s].active_personas],
     focus_persona   |-> h.dicts[s].focus_persona,
     full_log        |-> h.lists[h.dicts[s].full_log]]

\* what the operation of the latest call gives for these values
Returned(call, v) ==
    CASE call.op = "add" ->
           [v EXCEPT !.active_personas =
               IF InList(call.key, @) THEN @ ELSE Append(@, call.key)]
      [] call.op = "kick" ->
           [v EXCEPT !.active_personas = SelectSeq(@, LAMBDA k : k # call.key),
                     !.focus_persona = IF @ = call.key THEN "" ELSE @]
      [] call.op = "set_focus" -> [v EXCEPT !.focus_persona = call.key]
      [] call.op = "clear_focus" -> [v EXCEPT !.focus_persona = ""]
      [] call.op = "append_log" -> [v EXCEPT !.full_log = Append(@, call.entry)]

\* what C27 says of one call
C27_Step ==
    /\ \A s \in 1..Len(frame.dicts) : Deref(frame', s) = Deref(frame, s)
    /\ Deref(frame', frame'.call.ret) = Returned(frame'.call, Deref(frame, frame'.call.s))

\* C27: a call of add_persona_to_room, kick_persona_from_room, set_focus,
\* clear_focus or append_log leaves active_personas, focus_persona and
\* full_log of the state object it was given, and of every other state object
\* there is, as they were; the returned object holds the result.
C27_InputStateNotMutated == [][C27_Step]_vars

\* an entry was appended to a state that shares its log list with the state
\* it was made from, and that one still has the empty log
C27_Witness ==
    /\ pc = "heap"
    /\ frame.call.op = "append_log"
    /\ frame.call.s = 2
    /\ frame.dicts[2].full_log = frame.dicts[1].full_log
    /\ Deref(frame, 1).full_log = <<>>
    /\ Len(Deref(frame, frame.call.ret).full_log) = 1

\* what _load_image prints when the load failed
FailedReports ==
    {"File not found", "Image is too large", "Unsupported format", "Image analysis failed"}

\* the step read a line that made the program call _load_image
ImageLoadStep ==
    /\ inputs' = inputs + 1
    /\ op_call' # NoFrame
    /\ op_call'.op = "_load_image"

\* what C28 says of one step
C28_Step ==
    ImageLoadStep =>
        LET f == op_call'.key
            report == op_call'.report
            log == room_state.full_log
            log2 == room_state'.full_log
        IN  /\ report \in FailedReports \cup {"Image analyzed", "Image cached"}
            /\ (f \notin DOMAIN FILES \/ ~FILES[f].exists) => report = "File not found"
            /\ (f \in DOMAIN FILES /\ FILES[f].exists /\ FILES[f].valid = "unsupported")
                   => report = "Unsupported format"
            /\ (f \in DOMAIN FILES /\ FILES[f].exists /\ FILES[f].valid = "too_large")
                   => report = "Image is too large"
            /\ report \in FailedReports =>
                 /\ room_state'.image_contexts = room_state.image_contexts
                 /\ room_state'.active_personas = room_state.active_personas
                 /\ room_state'.focus_persona = room_state.focus_persona
                 /\ room_state'.topic = room_state.topic
                 /\ room_state'.topic_context = room_state.topic_context
                 /\ cmd_result'.cmd = "image_load" => room_state' = room_state
                 /\ cmd_result' = None =>
                      \/ log2 = log
                      \/ /\ Len(log2) = Len(log) + 1
                         /\ SubSeq(log2, 1, Len(log)) = log
                         /\ log2[Len(log2)].type = "user"

RoomImages(state) ==
    [i \in 1..Len(state.image_contexts) |-> state.image_contexts[i].hash]

\* a generation call was made in the step
CallStep == last_call' # last_call

\* C29: after any sequence of !image <path>, !image clear and repeated loads
\* of the same file, the image briefing passed to a turn is present exactly
\* when image_contexts is not empty and lists exactly the images of
\* image_contexts; an image whose load was just reported successful is in the
\* briefing of the next turn.
C29_Step ==
    /\ CallStep => last_call'.image_context = RoomImages(room_state)
    /\ (ImageLoadStep /\ op_call'.report \in {"Image analyzed", "Image cached"}) =>
           InList(FILES[op_call'.key].hash,
                  _build_image_context(room_state', image_redis'))

C29_BriefingListsRoomImages == [][C29_Step]_vars

\* the speaker of the j-th persona entry of a run over active
InOrder(active, j) == active[((j - 1) % Len(active)) + 1]

\* the persona entries the current run has logged are n, spoken in order
RunLogged(n) ==
    LET log == room_state.full_log IN
    /\ Len(log) = log_mark + 1 + n
    /\ \A j \in 1..n : /\ log[log_mark + 1 + j].type = "persona"
                       /\ log[log_mark + 1 + j].persona_key = InOrder(frame.active, j)

\* where a run stands: the dialogue turns before the one that is next, then
\* all R * P of them and the synthesis turns before the one that is next
C30_RunPosition ==
    /\ pc = "observe" =>
         /\ frame.round_count < frame.rounds
         /\ frame.i \in 1..Len(frame.active)
         /\ RunLogged(frame.round_count * Len(frame.active) + frame.i - 1)
    /\ pc = "synthesis" =>
         /\ frame.round_count = frame.rounds
         /\ frame.i \in 1..Len(frame.active)
         /\ RunLogged(frame.rounds * Len(frame.active) + frame.i - 1)

\* a turn of a run returned its reply
RunTurnReturns == pc \in {"observe", "synthesis"} /\ pc' \in {"observe", "synthesis", "prompt"}
                    /\ room_state' # room_state

\* what C30 says of one step
C30_Step ==
    /\ (pc = "prompt" /\ pc' = "observe") =>
         /\ frame'.rounds = IF Get(cmd_result', "observe_rounds", 0) > 0
                            THEN Get(cmd_result', "observe_rounds", 0) ELSE 3
         /\ frame'.active = room_state.active_personas
         /\ frame'.round_count = 0 /\ frame'.i = 1
    /\ RunTurnReturns =>
         LET P == Len(frame.active)
             R == frame.rounds
             t == frame.round_count * P + frame.i
         IN  /\ last_call'.persona_key = frame.active[frame.i]
             /\ last_call'.is_observe
             /\ room_state'.full_log[Len(room_state'.full_log)].persona_key
                    = frame.active[frame.i]
             /\ (pc = "observe" /\ t < R * P) =>
                    /\ pc' = "observe"
                    /\ frame'.round_count * P + frame'.i = t + 1
                    /\ frame'.rounds = R /\ frame'.active = frame.active
             /\ (pc = "observe" /\ t >= R * P) =>
                    /\ t = R * P
                    /\ pc' = "synthesis"
                    /\ frame'.i = 1 /\ frame'.round_count = R
                    /\ frame'.rounds = R /\ frame'.active = frame.active
             /\ (pc = "synthesis" /\ frame.i < P) =>
                    /\ pc' = "synthesis"
                    /\ frame'.i = frame.i + 1
                    /\ frame'.rounds = R /\ frame'.round_count = R
                    /\ frame'.active = frame.active
             /\ (pc = "synthesis" /\ frame.i = P) => pc' = "prompt"
    /\ (last_call' # last_call /\ last_call'.is_observe) => pc \in {"observe", "synthesis"}

\* C30: an observe run that is not interrupted makes exactly R rounds, R the
\* requested number or 3 when none is given; in each round every active
\* persona speaks once, in the order of active_personas; after the last round
\* every active persona gets one synthesis turn in the same order, and then
\* the prompt is next: no further turn of the run follows.
C30_RoundsThenSynthesis == []C30_RunPosition /\ [][C30_Step]_vars

\* the default run over two personas has completed: 3 rounds and the
\* synthesis round, 8 persona entries after the system entry
C30_Witness ==
    /\ pc = "prompt"
    /\ cmd_result.cmd = "observe"
    /\ Get(cmd_result, "observe_rounds", 0) = 0
    /\ Len(room_state.active_personas) = 2
    /\ Len(room_state.full_log) = log_mark + 9
    /\ \A j \in 1..8 :
         room_state.full_log[log_mark + 1 + j].persona_key
             = InOrder(room_state.active_personas, j)

\* the step in which an observe run starts
ObserveStarts == pc = "prompt" /\ pc' = "observe"

\* the places of the moderator messages in a log
UserEntries(log) == {i \in 1..Len(log) : log[i].type = "user"}

\* what C31 says of the step that starts a run
C31_Step ==
    ObserveStarts =>
        LET observe_topic == Get(cmd_result', "observe_topic", "")
            log == room_state.full_log
            users == UserEntries(log)
            latest == CHOOSE i \in users : \A j \in users : j <= i
            seed == frame'.seed
        IN  /\ observe_topic # "" => seed = observe_topic
            /\ (observe_topic = "" /\ users # {}) => seed = log[latest].content
            /\ (observe_topic = "" /\ users = {}) =>
                   seed = "Share your honest thoughts on " \o room_state.topic \o "."
            /\ frame'.current_prompt = _make_seed_prompt(frame'.speaker_list, seed)

\* C31: the seed of an observe run is the topic argument of the command when
\* one is given; else the content of the latest moderator message of the
\* transcript; else, the transcript holding no moderator message, the sentence
\* "Share your honest thoughts on <topic>." made from the current topic.  The
\* first prompt of the run is made from that seed.
C31_ObserveSeed == [][C31_Step]_vars

\* a run without a topic argument started after "hello" was answered: entries
\* of the personas lie between the message and the command
C31_Witness ==
    /\ pc = "observe"
    /\ Get(cmd_result, "observe_topic", "") = ""
    /\ frame.seed = "hello"
    /\ room_state.full_log[1].type = "user"
    /\ room_state.full_log[2].type = "persona"

\* the text a turn started in this state gives its persona to answer
TurnInput ==
    IF pc = "turn" THEN frame.user_input
    ELSE IF pc = "observe" THEN frame.current_prompt
    ELSE frame.synthesis_prompt

\* what C32 says of one step
C32_Step ==
    /\ CallStep =>
         LET h == room_state.personas[last_call'.persona_key].history
             m == last_call'.messages
         IN  /\ pc \in {"turn", "observe", "synthesis"}
             /\ Len(m) = Len(h) + 2
             /\ m[1].type = "system"
             /\ \A i \in 1..Len(h) :
                  /\ h[i].role \in {"user", "assistant"}
                  /\ m[i + 1].type = (IF h[i].role = "user" THEN "human" ELSE "ai")
                  /\ m[i + 1].content = h[i].content
             /\ m[Len(m)] = [type |-> "human", content |-> TurnInput]
    /\ (pc \in {"turn", "observe", "synthesis"} /\ room_state'.full_log # room_state.full_log) =>
         LET entry == room_state'.full_log[Len(room_state'.full_log)]
         IN  /\ Len(room_state'.full_log) = Len(room_state.full_log) + 1
             /\ entry.type = "persona"
             /\ last_call'.persona_key = entry.persona_key
             /\ last_call'.outcome = "returned"
             /\ last_call'.input_text = TurnInput

\* C32: a turn makes one call of the generation backend; the messages of the
\* call are the system prompt, then every entry of the in-memory history of
\* the persona in stored order (role "user" as a human message, role
\* "assistant" as an AI message, the content as stored), then the new input as
\* the last, human, message.
C32_MessagesOfACall == [][C32_Step]_vars

\* Lena, who has the exchange of an earlier session and the one on "hello",
\* is called again: six messages
C32_Witness ==
    /\ last_call # NoFrame
    /\ last_call.persona_key = "1"
    /\ Len(last_call.messages) = 6
    /\ last_call.messages[2] = [type |-> "human", content |-> "hi"]
    /\ last_call.messages[3] = [type |-> "ai", content |-> "hey"]
    /\ last_call.messages[4] = [type |-> "human", content |-> "hello"]
    /\ last_call.messages[6].type = "human"

\* what C33 says of one step
C33_Step ==
    CallStep =>
        LET active == room_state.active_personas
            roster == last_call'.room_participants
        IN  /\ roster = [i \in 1..Len(active) |-> FULL_REGISTRY[active[i]].name]
            /\ InList(FULL_REGISTRY[last_call'.persona_key].name, roster)
            /\ InList("_room_constraint", last_call'.messages[1].content)
            /\ last_call'.is_observe = (pc # "turn")

\* C33: for every generation call, of a normal turn, an observe turn or a
\* synthesis turn, the roster given to the prompt is the display names of the
\* keys of active_personas at the time of the call, in that order; the name of
\* the speaker is among them, and the roster block is in the system prompt.
C33_RosterIsTheActiveSet == [][C33_Step]_vars

\* under a focus on Lena, with Marcus in the room, Lena is called with both
\* names
C33_Witness ==
    /\ last_call # NoFrame
    /\ ~last_call.is_observe
    /\ last_call.persona_key = "1"
    /\ room_state.focus_persona = "1"
    /\ last_call.room_participants = <<"Lena", "Marcus">>

\* what C34 says of the step that handles "!reset"
C34_Step ==
    ResetStep =>
        LET active == room_state.active_personas
            keys == {active[i] : i \in 1..Len(active)}
        IN  /\ \A k \in keys :
                 /\ room_state'.personas[k].history = <<>>
                 /\ FULL_REGISTRY[k].redis_key \notin DOMAIN redis'
            /\ room_state'.active_personas = active
            /\ room_state'.focus_persona = room_state.focus_persona
            /\ room_state'.topic = room_state.topic
            /\ room_state'.topic_context = room_state.topic_context
            /\ room_state'.image_contexts = room_state.image_contexts
            /\ room_state'.full_log = room_state.full_log
            /\ image_redis' = image_redis
            /\ pc' = "prompt"

\* C34: after "!reset" every active persona has an empty in-memory history
\* and the History Store holds nothing under its key; the active set, the
\* focus, the topic and its briefing, the images and the transcript are as
\* before.
C34_ResetClearsActiveHistories == [][C34_Step]_vars

\* "hello" was answered by Lena and Marcus and then "!reset" was typed: the
\* store is empty, the transcript still holds the three entries
C34_Witness ==
    /\ pc = "prompt"
    /\ cmd_result.cmd = "reset"
    /\ room_state.active_personas = <<"1", "2">>
    /\ DOMAIN redis = {}
    /\ room_state.personas["1"].history = <<>>
    /\ Len(room_state.full_log) = 3

\* the call carries the long-session hint in its system prompt
Hinted(call) == InList("_LONG_SESSION_HINT", call.messages[1].content)

\* the exchanges the persona of the call had when it was called
ExchangesAt(call) == Len(call.history) \div 2

\* C35 (as the code has it): the long-session hint is in the prompt of a call
\* exactly when the in-memory history of the persona holds at least 15
\* exchanges: never before, and on every turn from then on.
C35_Step ==
    CallStep =>
        /\ last_call'.history = room_state.personas[last_call'.persona_key].history
        /\ Hinted(last_call') <=> ExchangesAt(last_call') >= 15

C35_HintFromFifteenExchanges == [][C35_Step]_vars

\* C35 as stated: once the threshold is reached the hint is not appended on
\* every turn: a persona whose previous turn (its 16th or a later one) carried
\* the hint is not given it again on the next.
C35_AsStated_Step ==
    (CallStep /\ ExchangesAt(last_call') > 15) => ~Hinted(last_call')

C35_AsStated == [][C35_AsStated_Step]_vars

\* Lena is called with 16 exchanges behind her, the second call in a row that
\* carries the hint
C35_Witness ==
    /\ last_call # NoFrame
    /\ last_call.persona_key = "1"
    /\ ExchangesAt(last_call) = 16
    /\ Hinted(last_call)

(***************************************************************************)
(* build_system_prompt's disposition (core/prompt_builder.py 50-56) and    *)
(* _disagreeable_descriptor (4-27).  A Python float is [nan, w]: not a     *)
(* number, or the value in hundredths.                                     *)
(***************************************************************************)
WeightMargin == 10

Finite(w) == [nan |-> FALSE, w |-> w]

NaN == [nan |-> TRUE, w |-> 0]

\* a <= b of two floats: False when either is NaN
FloatLe(a, b) == ~a.nan /\ ~b.nan /\ a.w <= b.w

\* float(x): [ok, v], ok FALSE for the TypeError of None and the ValueError
\* of a string that is no float literal.  The literals: blanks around, an
\* optional sign, then "nan" in any case or digits with at most one point and
\* a digit somewhere (the strings of the model have no more than two
\* decimals, no exponent and no underscore, and none is an infinity)
float(x) ==
    CASE x.kind = "float" -> [ok |-> TRUE, v |-> x.v]
      [] x.kind = "none" -> [ok |-> FALSE, v |-> NaN]
      [] x.kind = "str" ->
            LET t == Strip(x.s)
                signed == t # "" /\ Char(t, 1) \in {"+", "-"}
                sign == IF signed /\ Char(t, 1) = "-" THEN 0 - 1 ELSE 1
                body == Lower(IF signed THEN SubSeq(t, 2, Len(t)) ELSE t)
                dots == {i \in 1..Len(body) : Char(body, i) = "."}
                dot == IF dots = {} THEN Len(body) + 1 ELSE CHOOSE i \in dots : TRUE
                whole == SubSeq(body, 1, dot - 1)
                frac == SubSeq(body, dot + 1, Len(body))
                decimal == /\ Cardinality(dots) <= 1
                           /\ \A i \in 1..Len(body) : i \in dots \/ IsDigit(Char(body, i))
                           /\ Len(whole) + Len(frac) > 0
            IN  IF body = "nan" THEN [ok |-> TRUE, v |-> NaN]
                ELSE IF decimal
                     THEN [ok |-> TRUE,
                           v |-> Finite(sign * (100 * ToInt(whole)
                                                + ToInt(SubSeq(frac \o "00", 1, 2))))]
                ELSE [ok |-> FALSE, v |-> NaN]

\* _disagreeable_descriptor(weight): the start of the sentence returned
_disagreeable_descriptor(weight) ==
    IF FloatLe(weight, Finite(25)) THEN "naturally agreeable"
    ELSE IF FloatLe(weight, Finite(50)) THEN "generally open-minded"
    ELSE IF FloatLe(weight, Finite(75)) THEN "opinionated and assertive"
    ELSE "strongly opinionated and resistant"

\* build_system_prompt: disagreeable = float(metadata.get("disagreeable", 0.5)),
\* then max(0.0, min(1.0, disagreeable)), or 0.5 when float() raises.  min
\* and max of Python give their first argument unless the second is smaller
\* (greater), and no comparison with NaN is true
disposition(metadata) ==
    LET got == IF metadata.kind = "missing"
               THEN [kind |-> "float", v |-> Finite(50), s |-> ""]
               ELSE metadata
        f == float(got)
        lower == IF FloatLe(f.v, Finite(100)) /\ f.v # Finite(100) THEN f.v ELSE Finite(100)
        clamped == IF FloatLe(Finite(0), lower) /\ lower # Finite(0) THEN lower ELSE Finite(0)
    IN  _disagreeable_descriptor(IF f.ok THEN clamped ELSE Finite(50))

\* what metadata holds under "disagreeable": nothing, None, a float, a string
Disagreeables ==
    {[kind |-> "missing", v |-> NaN, s |-> ""], [kind |-> "none", v |-> NaN, s |-> ""],
     [kind |-> "float", v |-> NaN, s |-> ""]}
    \cup {[kind |-> "float", v |-> Finite(w), s |-> ""] :
            w \in (0 - WeightMargin)..(100 + WeightMargin)}
    \cup {[kind |-> "str", v |-> NaN, s |-> s] :
            s \in {"", "high", "0.3", " 0.25 ", "0.26", ".5", "1.", "-0.1", "+1.2", "0.7.5",
                   "nan", "NaN", " -nan", "abc", ".", "0.76"}}

InitDisposition ==
    /\ \E d \in Disagreeables :
         frame = [kind |-> "build_system_prompt", metadata |-> d]
    /\ pc = "called"
    /\ op_call = NoFrame
    /\ cmd_result = None
    /\ room_state \in {r \in RoomStates : r.active_personas = <<>> /\ r.focus_persona = ""}
    /\ redis = EmptyStore
    /\ image_redis = [analysis |-> {}, index |-> <<>>]
    /\ last_call = NoFrame
    /\ inputs = 0
    /\ log_mark = 0
    /\ observing_notice = ""

\* system_prompt = build_system_prompt(name, document, metadata)
BuildPrompt ==
    /\ pc = "called"
    /\ op_call' = [op |-> "build_system_prompt", disposition |-> disposition(frame.metadata)]
    /\ pc' = "built"
    /\ UNCHANGED <<room_state, redis, image_redis, frame, cmd_result, last_call, inputs,
                   log_mark, observing_notice>>

SpecDisposition == InitDisposition /\ [][BuildPrompt]_vars

\* the four buckets in order
Buckets ==
    <<"naturally agreeable", "generally open-minded", "opinionated and assertive",
      "strongly opinionated and resistant">>

BucketOf(descriptor) == CHOOSE i \in 1..4 : Buckets[i] = descriptor

\* the bucket of a weight in hundredths: below 0 as 0, above 100 as 100
BucketOfWeight(w) ==
    LET c == IF w < 0 THEN 0 ELSE IF w > 100 THEN 100 ELSE w
    IN  IF c <= 25 THEN 1 ELSE IF c <= 50 THEN 2 ELSE IF c <= 75 THEN 3 ELSE 4

\* the weight is not a number: NaN as a float, or "nan" as a string
NaNWeight(d) == d.kind \in {"float", "str"} /\ float(d).ok /\ float(d).v.nan

\* the weight is a number: a float that is not NaN, or a string that is the
\* literal of one
Numeric(d) == d.kind \in {"float", "str"} /\ float(d).ok /\ ~float(d).v.nan

\* the bucket the weight has by the four steps, the clamp and the default
StatedBucket(d) ==
    IF Numeric(d) THEN BucketOfWeight(float(d).v.w) ELSE BucketOfWeight(50)

Built == pc = "built" /\ frame.kind = "build_system_prompt"

\* C36: the descriptor is the bucket of the weight (1 up to 0.25, 2 up to 0.5,
\* 3 up to 0.75, 4 above), a weight below 0 counting as 0 and one above 1 as
\* 1, a missing or non-numeric weight as 0.5; no smaller weight has a higher
\* bucket.
C36_DispositionBuckets ==
    Built =>
        /\ BucketOf(op_call.disposition) = StatedBucket(frame.metadata)
        /\ \A w \in (0 - WeightMargin)..(100 + WeightMargin) :
             (Numeric(frame.metadata) /\ w <= float(frame.metadata).v.w) =>
                 BucketOf(disposition([kind |-> "float", v |-> Finite(w), s |-> ""]))
                     <= BucketOf(op_call.disposition)

\* the same for every weight but NaN
C36_UnlessNaN == (Built /\ ~NaNWeight(frame.metadata)) => C36_DispositionBuckets

\* a prompt was built for the weight "nan", a string that is no number and
\* that float() takes
C36_NaNWeight ==
    /\ Built
    /\ frame.metadata.kind = "str"
    /\ Lower(Strip(frame.metadata.s)) = "nan"
    /\ op_call.disposition = "strongly opinionated and resistant"


\* every key of active_personas has a context in the personas map
ActiveHaveContexts ==
    \A i \in 1..Len(room_state.active_personas) :
        room_state.active_personas[i] \in DOMAIN room_state.personas

\* the step is the dispatch of "!add" for a persona that has no context
\* before it and none after it: load_persona_context raised
FailedAddStep ==
    /\ pc = "prompt" /\ inputs' = inputs + 1
    /\ cmd_result'.cmd = "add"
    /\ cmd_result'.persona_key \notin DOMAIN room_state.personas
    /\ cmd_result'.persona_key \notin DOMAIN room_state'.personas

C37_Step == FailedAddStep => room_state'.active_personas = room_state.active_personas

\* C37: in every room state every key of active_personas has its Persona
\* Context in the personas map, and an !add whose persona load fails leaves
\* active_personas as it was.
C37_ActiveHaveContexts == []ActiveHaveContexts /\ [][C37_Step]_vars

\* "!add @marcus" was typed in Lena's room and the load failed: Marcus has no
\* context and is not in the room
C37_Witness ==
    /\ pc = "prompt"
    /\ cmd_result.cmd = "add"
    /\ cmd_result.persona_key = "2"
    /\ "2" \notin DOMAIN room_state.personas
    /\ room_state.active_personas = <<"1">>

\* the in-memory history of every loaded persona is the list the history
\* store holds under its key
MemoryIsStore(state, store) ==
    \A k \in DOMAIN state.personas :
        state.personas[k].history = load_history(store, state.personas[k].redis_key)

\* C38: from a room whose contexts were loaded from the history store on,
\* after every turn, observe step, kick, re-add and reset, and after an
\* interrupt at any point of a turn before the room state is updated, the
\* in-memory history of each loaded persona equals the stored list.
C38_MemoryEqualsStore == MemoryIsStore(room_state, redis)

C38_UnlessSaved_Step ==
    (MemoryIsStore(room_state, redis) /\ Outcome(last_call') # "interrupted_after_save")
        => MemoryIsStore(room_state', redis')

\* every step keeps the two equal but an interrupt that comes after
\* append_exchange has saved
C38_UnlessSaved == [][C38_UnlessSaved_Step]_vars

\* a turn of several responders ends with an interrupt of responder j
InterruptedAtResponder ==
    /\ pc = "turn"
    /\ Len(frame.responders) > 1
    /\ Outcome(last_call') \in {"interrupted", "interrupted_after_save"}

C40_Step ==
    InterruptedAtResponder =>
        LET j == frame.i
            log == room_state.full_log
            u == Len(log) - (j - 1)
        IN  /\ u > log_mark
            /\ log[u].type = "user" /\ log[u].content = frame.user_input
            /\ \A n \in 1..(j - 1) :
                 LET h == room_state.personas[frame.responders[n]].history IN
                 /\ log[u + n].type = "persona"
                 /\ log[u + n].persona_key = frame.responders[n]
                 /\ Len(h) >= 2
                 /\ h[Len(h) - 1] = [role |-> "user", content |-> frame.user_input]
                 /\ h[Len(h)] = [role |-> "assistant", content |-> log[u + n].content]
            /\ room_state' = room_state
            /\ redis' = redis
            /\ pc' = "prompt"

\* C40: when a turn of several responders is interrupted while responder j is
\* generating, the moderator entry and the entries and histories of the
\* responders before j stay, j and the later responders add nothing to the
\* transcript, the history store or their in-memory histories, and the room
\* is at the prompt with active set, focus and topic unchanged.
C40_InterruptKeepsEarlierResponders == [][C40_Step]_vars

C40_UnlessSaved_Step ==
    (InterruptedAtResponder /\ Outcome(last_call') = "interrupted") => C40_Step

\* the same of an interrupt that comes before append_exchange
C40_UnlessSaved == [][C40_UnlessSaved_Step]_vars

\* the second of two responders was interrupted after its exchange was saved
C40_SavedThenInterrupted ==
    /\ pc = "prompt"
    /\ Outcome(last_call) = "interrupted_after_save"
    /\ last_call.persona_key = "2"
    /\ room_state.active_personas = <<"1", "2">>
    /\ Len(room_state.full_log) = log_mark + 2
    /\ Len(load_history(redis, room_state.personas["2"].redis_key))
         = Len(room_state.personas["2"].history) + 2

\* the stream has ended and extract_thinking has given the reply
Streamed == pc = "streamed" /\ frame.kind = "stream"

\* C39: when the stream has ended, what on_token was given, put together and
\* trimmed, is the reply extract_thinking returns (the one that is stored and
\* logged), whatever the text is (with a block, without one, with text before
\* the block) and however it was cut into chunks.
C39_StreamedIsTheReply ==
    Streamed => IsTrimOf(frame.result[2], Concat(frame.st.calls, 1))

\* the same for the texts that begin with their block
C39_WhenBlockLeads ==
    (Streamed /\ frame.parts.block /\ frame.parts.pre = "") => C39_StreamedIsTheReply

\* a text without a block was streamed: on_token was never called, the reply
\* is the text
C39_NothingStreamed ==
    /\ Streamed
    /\ frame.text = " hi "
    /\ frame.st.calls = <<>>
    /\ frame.result[2] = "hi"

====
